---------------------------- MODULE Spec2Model ----------------------------
(***************************************************************************)
(* A model of the browser-watermark codec: the seeded PRNG, the block      *)
(* scheduler, the repetition code, the 8x8 DCT embed/extract pipeline and  *)
(* the public watermark()/verify() operations.                             *)
(*                                                                         *)
(* Representation.                                                         *)
(*  - A 32-bit word is the set of its bit positions that are 1 (a subset   *)
(*    of 0..31); XOR is the symmetric difference, shifts move positions    *)
(*    and drop those that leave 0..31 (JavaScript's << and >>> on int32).  *)
(*  - A real number of the pixel pipeline (luminance, DCT coefficient) is  *)
(*    an integer count of 1/YSCALE units.  YSCALE = 64000 makes            *)
(*    0.299R+0.587G+0.114B exact and is about float32's resolution at      *)
(*    the pixel range.  Cosines are integers scaled by 2^26; a sum of      *)
(*    products is formed exactly and rounded once.  The code works in      *)
(*    float32/float64: the two agree on the sign of every coefficient      *)
(*    whose exact value is not zero.  Where the exact value is zero        *)
(*    the model reads it as zero (a -1 vote); the code does the same on a  *)
(*    constant block, and elsewhere takes the sign of its rounding error.  *)
(*    No property below rests on a state of the second kind.               *)
(*  - A confidence or a threshold is an exact fraction num/den.            *)
(***************************************************************************)
EXTENDS Integers, Sequences, FiniteSets, TLC

VARIABLES
    prng,       \* SeededPRNG instance: [s0, s1, s2, s3], each a 32-bit word
    prngOut,    \* the last value returned by next()/nextInt(): a record
    prngCalls,  \* number of next() calls made on the instance
    file,       \* the image or PDF the caller holds:
                \* [kind, hasCarrier, readable, decodes, img]
    marks,      \* history: the watermarks applied to it, in order
    res,        \* the outcome of the last API or core call
    twin,       \* history: what verify() says of the last watermark() output
                \* had it been made without the visible overlay
    calls,      \* history: the calls made on the file, [watermark, verify]
    sched       \* the sampling loops of one embedWatermark and one
                \* extractWatermark call on the same bits and blocks: [embed, extract]

prngVars == <<prng, prngOut, prngCalls>>
codecVars == <<file, marks, res, twin, calls>>
vars == <<prng, prngOut, prngCalls, file, marks, res, twin, calls, sched>>

-----------------------------------------------------------------------------
(* A value computed once and used several times is bound as the element of  *)
(* a singleton set: Only({e(x) : x \in {v}}) is e(v), with v evaluated once.  *)

Only(S) == CHOOSE x \in S : TRUE

-----------------------------------------------------------------------------
(* 32-bit words *)

WordBits == 0..31

Xor(a, b) == {i \in WordBits : (i \in a) # (i \in b)}

\* a << n on a 32-bit word
Shl(a, n) == {i + n : i \in {j \in a : j + n <= 31}}

\* a >>> n on a 32-bit word
Shr(a, n) == {i - n : i \in {j \in a : j >= n}}

Pow2(n) == IF n = 0 THEN 1 ELSE IF n = 1 THEN 2 ELSE IF n = 2 THEN 4
      ELSE IF n = 3 THEN 8 ELSE IF n = 4 THEN 16 ELSE IF n = 5 THEN 32
      ELSE IF n = 6 THEN 64 ELSE IF n = 7 THEN 128 ELSE IF n = 8 THEN 256
      ELSE IF n = 9 THEN 512 ELSE IF n = 10 THEN 1024 ELSE IF n = 11 THEN 2048
      ELSE IF n = 12 THEN 4096 ELSE IF n = 13 THEN 8192 ELSE IF n = 14 THEN 16384
      ELSE 32768

RECURSIVE SumPow(_, _, _)
\* the value of bits lo..lo+15 of word w, as an integer 0..65535
SumPow(w, lo, k) ==
    IF k > 15 THEN 0
    ELSE (IF lo + k \in w THEN Pow2(k) ELSE 0) + SumPow(w, lo, k + 1)

LoHalf(w) == SumPow(w, 0, 0)
HiHalf(w) == SumPow(w, 16, 0)

\* the bits of a byte value 0..255, as a word
ByteWord(b) == {j \in 0..7 : (b \div Pow2(j)) % 2 = 1}

AllOnes == WordBits     \* 0xffffffff

\* a word from its two 16-bit halves
WordOf(hi, lo) ==
    {j \in WordBits : IF j < 16 THEN (lo \div Pow2(j)) % 2 = 1
                                 ELSE (hi \div Pow2(j - 16)) % 2 = 1}


-----------------------------------------------------------------------------
(* SeededPRNG (src/src/core/prng.ts) *)

\* seed[i] ?? 0, with the 0-based index of the source
SeedAt(seed, i) == IF i + 1 <= Len(seed) THEN seed[i + 1] ELSE 0

\* a seeding loop that shifts by i + j itself: what is shifted by 32 or more
\* is lost
SeedWord_NoWrap(seed, j) ==
    LET starts == {i \in 0..(Len(seed) - 1) : i % 4 = 0}
        term(i, b) == /\ b >= i + j
                      /\ b - (i + j) <= 7
                      /\ (SeedAt(seed, i + j) \div Pow2(b - (i + j))) % 2 = 1
    IN {b \in WordBits : Cardinality({i \in starts : term(i, b)}) % 2 = 1}

\* word j (0..3) after the seeding loop: the XOR, over i = 0, 4, 8, ... < length,
\* of seed[i + j] << ((i + j) % 32)
SeedWord(seed, j) ==
    LET starts == {i \in 0..(Len(seed) - 1) : i % 4 = 0}
        \* bit b of seed[i + j] << ((i + j) % 32)
        term(i, b) == LET sh == (i + j) % 32
                      IN /\ b >= sh
                         /\ b - sh <= 7
                         /\ (SeedAt(seed, i + j) \div Pow2(b - sh)) % 2 = 1
    IN {b \in WordBits : Cardinality({i \in starts : term(i, b)}) % 2 = 1}

\* 0x12345678, 0x9abcdef0, 0xfedcba98, 0x76543210
FallbackState ==
    [s0 |-> WordOf(4660, 22136), s1 |-> WordOf(39612, 57072),
     s2 |-> WordOf(65244, 47768), s3 |-> WordOf(30292, 12816)]

\* a constructor that keeps the four words of the loop whatever they are
SeededPRNG_NoFallback(seed) ==
    [s0 |-> SeedWord(seed, 0), s1 |-> SeedWord(seed, 1),
     s2 |-> SeedWord(seed, 2), s3 |-> SeedWord(seed, 3)]

\* new SeededPRNG(seed)
SeededPRNG(seed) ==
    LET s == [s0 |-> SeedWord(seed, 0), s1 |-> SeedWord(seed, 1),
              s2 |-> SeedWord(seed, 2), s3 |-> SeedWord(seed, 3)]
    IN IF s.s0 = {} /\ s.s1 = {} /\ s.s2 = {} /\ s.s3 = {}
       THEN FallbackState ELSE s

\* the state after one next() call; the value returned is state3 of the result
\* (as an unsigned word) divided by 0xffffffff
NextState(st) ==
    LET t  == Shl(st.s1, 11)
        a0 == Xor(st.s0, st.s1)
        a1 == Xor(st.s1, st.s2)
        a2 == Xor(st.s2, st.s3)
        a3 == Xor(st.s3, Xor(Shr(st.s3, 19), Xor(a0, t)))
        b0 == Xor(a0, Shl(a0, 11))
    IN [s0 |-> a1, s1 |-> a2, s2 |-> a3, s3 |-> b0]

\* Math.floor((w / 0xffffffff) * max) for a word w and 1 <= max < 2^15, as the
\* exact floor of w * max / (2^32 - 1).
\* With w * max = q * 2^32 + r this is q + 1 if q + r >= 2^32 - 1 and q otherwise
\* (2^32 = 1 modulo 2^32 - 1); computed on 16-bit limbs.
FloorScale(w, max) ==
    LET A  == HiHalf(w) * max
        B  == LoHalf(w) * max
        m  == (A % 65536) + (B \div 65536)
        q  == (A \div 65536) + (m \div 65536)
        rh == m % 65536
        rl == B % 65536
    IN IF rh = 65535 /\ rl + q >= 65535 THEN q + 1 ELSE q

\* Math.floor(next() * max) for the word w that next() returned
NextIntOf(w, max) == IF max = 0 THEN 0 ELSE FloorScale(w, max)

RECURSIVE Stream(_, _)
StreamJoin(a, b) == [outs |-> a.outs \o b.outs, final |-> b.final]
StreamCont(a, n) == Only({StreamJoin(a, b) : b \in {Stream(a.final, n)}})
\* n successive next() calls from state st: the words returned, in order, and
\* the state they leave
Stream(st, n) ==
    IF n <= 0 THEN [outs |-> <<>>, final |-> st]
    ELSE IF n = 1 THEN Only({[outs |-> <<s.s3>>, final |-> s] : s \in {NextState(st)}})
    ELSE Only({StreamCont(a, n - (n \div 2)) : a \in {Stream(st, n \div 2)}})

-----------------------------------------------------------------------------
(* The 8x8 DCT (src/unnamed/part_008), in fixed point.  A block is 8 rows of *)
(* 8 values: block[r + 1][c + 1] is element r * 8 + c of the source's array. *)

BLOCK_SIZE == 8

YSCALE == 64000         \* units per luminance level
COSSCALE == 67108864    \* 2^26, the scale of the cosine table
LIMB == 8192            \* 2^13: products are formed on 13-bit limbs

Abs(a) == IF a < 0 THEN 0 - a ELSE a

\* <<f(1), ..., f(8)>>
Row8(f(_)) == <<f(1), f(2), f(3), f(4), f(5), f(6), f(7), f(8)>>

\* cos(k * pi / 16) * 2^26 for k = 0..8, rounded
COS_QUARTER ==
    <<67108864, 65819386, 62000506, 55798981, 47453133, 37283687, 25681450, 13092290, 0>>

\* cos(k * pi / 16) * 2^26 for any k >= 0, by the symmetries of the cosine
CosPi16(k) ==
    LET m == k % 32
        h == IF m > 16 THEN 32 - m ELSE m
    IN IF h > 8 THEN 0 - COS_QUARTER[(16 - h) + 1] ELSE COS_QUARTER[h + 1]

\* getCos(i, j) = COS_TABLE[i * 8 + j] = cos((2i + 1) * j * pi / 16)
getCos(i, j) == CosPi16((2 * i + 1) * j)

\* C0 = 1 / sqrt(2), and C0 * 0.5, times 2^26
C0 == 47453133
C0HALF == 23726566

\* getC(j) * getCos(i, j): the factor of the inverse transform
getCCos(i, j) == IF j = 0 THEN C0 ELSE getCos(i, j)

\* high and low limb of each value of a row: a = (a \div LIMB) * LIMB + a % LIMB
Hi8(r) == Only({LET f(k) == a[k] \div LIMB IN Row8(f) : a \in {r}})
Lo8(r) == Only({LET f(k) == a[k] % LIMB IN Row8(f) : a \in {r}})

\* column j of the cosine table, <<getCos(0, j), ..., getCos(7, j)>>, by limbs
COSCOL_H == LET col(j) == LET f(i) == getCos(i - 1, j - 1) IN Hi8(Row8(f)) IN Row8(col)
COSCOL_L == LET col(j) == LET f(i) == getCos(i - 1, j - 1) IN Lo8(Row8(f)) IN Row8(col)

\* row i of the inverse table, <<getC(0) * getCos(i, 0), ..., getCos(i, 7)>>
ICOSROW_H == LET row(i) == LET f(j) == getCCos(i - 1, j - 1) IN Hi8(Row8(f)) IN Row8(row)
ICOSROW_L == LET row(i) == LET f(j) == getCCos(i - 1, j - 1) IN Lo8(Row8(f)) IN Row8(row)

\* the sum over k of a[k] * c[k] / 2^26, rounded to the nearest unit once;
\* both rows are given by limbs
Dot8(ah, al, ch, cl) ==
    Only({ p + (m \div LIMB) + (((m % LIMB) * LIMB + l + (COSSCALE \div 2)) \div COSSCALE) :
        p \in {ah[1] * ch[1] + ah[2] * ch[2] + ah[3] * ch[3] + ah[4] * ch[4] + ah[5] * ch[5] + ah[6] * ch[6] + ah[7] * ch[7] + ah[8] * ch[8]},
        m \in {ah[1] * cl[1] + ah[2] * cl[2] + ah[3] * cl[3] + ah[4] * cl[4] + ah[5] * cl[5] + ah[6] * cl[6] + ah[7] * cl[7] + ah[8] * cl[8]
                 + al[1] * ch[1] + al[2] * ch[2] + al[3] * ch[3] + al[4] * ch[4] + al[5] * ch[5] + al[6] * ch[6] + al[7] * ch[7] + al[8] * ch[8]},
        l \in {al[1] * cl[1] + al[2] * cl[2] + al[3] * cl[3] + al[4] * cl[4] + al[5] * cl[5] + al[6] * cl[6] + al[7] * cl[7] + al[8] * cl[8]} })

\* a * c / 2^26 for one constant c > 0, rounded to the nearest unit
MulConst(a, c) ==
    Only({ Only({ ah * ch + (m \div LIMB)
                    + (((m % LIMB) * LIMB + al * cl + (COSSCALE \div 2)) \div COSSCALE) :
                  m \in {ah * cl + al * ch} }) :
        ah \in {a \div LIMB}, al \in {a % LIMB}, ch \in {c \div LIMB}, cl \in {c % LIMB} })

\* a * 0.5, rounded to the nearest unit
Half(a) == (a + 1) \div 2

\* sum * getC(u) * 0.5
ScaleC(sum, u) == Only({IF u = 0 THEN MulConst(a, C0HALF) ELSE Half(a) : a \in {sum}})

\* column c (1..8) of a block
Col8(block, c) == LET f(r) == block[r][c] IN Row8(f)

\* the second pass of both transforms, on the rows of temp
RowPass(temp, cosH, cosL, scale(_, _)) ==
    LET result(u) ==
          Only({ LET f(v) == scale(Dot8(th, tl, cosH[v], cosL[v]), v - 1) IN Row8(f) :
                   th \in {Hi8(temp[u])}, tl \in {Lo8(temp[u])} })
    IN Row8(result)

\* the first pass of both transforms, on the columns of the block
ColPass(block, cosH, cosL, scale(_, _)) ==
    Only({ LET row(u) ==
                 LET f(v) == scale(Dot8(colH[v], colL[v], cosH[u], cosL[u]), u - 1)
                 IN Row8(f)
           IN Row8(row) :
             colH \in {LET f(v) == Hi8(Col8(block, v)) IN Row8(f)},
             colL \in {LET f(v) == Lo8(Col8(block, v)) IN Row8(f)} })

\* sum * 0.5 whatever the index
HalfOf(sum, u) == Half(sum)

\* dct2d(block):
\*   temp[u * 8 + v] = sum_x block[x * 8 + v] * getCos(x, u) * getC(u) * 0.5
\*   result[u * 8 + v] = sum_y temp[u * 8 + y] * getCos(y, v) * getC(v) * 0.5
dct2d(block) ==
    Only({ Only({ RowPass(temp, COSCOL_H, COSCOL_L, ScaleC) :
                    temp \in {ColPass(b, COSCOL_H, COSCOL_L, ScaleC)} }) :
             b \in {block} })

\* idct2d(block):
\*   temp[x * 8 + y] = sum_u getC(u) * block[u * 8 + y] * getCos(x, u) * 0.5
\*   result[x * 8 + y] = sum_v getC(v) * temp[x * 8 + v] * getCos(y, v) * 0.5
idct2d(block) ==
    Only({ Only({ RowPass(temp, ICOSROW_H, ICOSROW_L, HalfOf) :
                    temp \in {ColPass(b, ICOSROW_H, ICOSROW_L, HalfOf)} }) :
             b \in {block} })

-----------------------------------------------------------------------------
(* Repetition code (src/unnamed/part_007) *)

REPETITION_FACTOR == 3

RECURSIVE SumUpTo(_, _)
\* f[1] + ... + f[n]
SumUpTo(f, n) == IF n = 0 THEN 0 ELSE f[n] + SumUpTo(f, n - 1)

\* an encoder that repeats the whole string three times instead of each bit
encodeWithRepetition_Interleaved(bits) ==
    [k \in 1..(Len(bits) * REPETITION_FACTOR) |-> bits[((k - 1) % Len(bits)) + 1]] \o <<>>

\* encodeWithRepetition(bits)
encodeWithRepetition(bits) ==
    [k \in 1..(Len(bits) * REPETITION_FACTOR) |->
        bits[((k - 1) \div REPETITION_FACTOR) + 1]] \o <<>>

\* a decoder whose tie (avg = 0.5) goes to 1
decodeWithMajorityVote_TieToOne(noisy, den, bitCount) ==
    LET sum(i) == noisy[3 * i + 1] + noisy[3 * i + 2] + noisy[3 * i + 3]
    IN [bits |-> [i \in 1..bitCount |->
                     IF 2 * sum(i - 1) >= REPETITION_FACTOR * den THEN 1 ELSE 0] \o <<>>,
        confNum |-> SumUpTo([i \in 1..bitCount |->
                                Abs(2 * sum(i - 1) - REPETITION_FACTOR * den)] \o <<>>,
                            bitCount),
        confDen |-> REPETITION_FACTOR * den * bitCount]

\* a decoder that gives 1 only to a bit whose three copies are all 1
decodeWithMajorityVote_Unanimous(noisy, den, bitCount) ==
    LET sum(i) ==
            LET at(j) == IF i * REPETITION_FACTOR + j < Len(noisy)
                         THEN noisy[i * REPETITION_FACTOR + j + 1] ELSE 0
            IN at(0) + at(1) + at(2)
    IN [bits |-> [i \in 1..bitCount |->
                     IF sum(i - 1) >= REPETITION_FACTOR * den THEN 1 ELSE 0] \o <<>>,
        confNum |-> SumUpTo([i \in 1..bitCount |->
                                Abs(2 * sum(i - 1) - REPETITION_FACTOR * den)] \o <<>>,
                            bitCount),
        confDen |-> REPETITION_FACTOR * den * bitCount]

\* decodeWithMajorityVote(noisyBits, bitCount).  The soft value noisyBits[idx]
\* is noisy[idx + 1] / den; the confidence returned is confNum / confDen.
decodeWithMajorityVote(noisy, den, bitCount) ==
    LET \* sum of the (up to) three soft values of bit i, as a numerator over den
        sum(i) ==
            LET at(j) == IF i * REPETITION_FACTOR + j < Len(noisy)
                         THEN noisy[i * REPETITION_FACTOR + j + 1] ELSE 0
            IN at(0) + at(1) + at(2)
        \* avg = sum / 3 > 0.5
        decoded == [i \in 1..bitCount |->
                        IF 2 * sum(i - 1) > REPETITION_FACTOR * den THEN 1 ELSE 0] \o <<>>
        \* |avg - 0.5| * 2, as a numerator over 3 * den
        votes == [i \in 1..bitCount |->
                        Abs(2 * sum(i - 1) - REPETITION_FACTOR * den)] \o <<>>
    IN [bits |-> decoded,
        confNum |-> SumUpTo(votes, bitCount),
        confDen |-> REPETITION_FACTOR * den * bitCount]

-----------------------------------------------------------------------------
(* Payload digests (src/src/core/extract.ts, lines 122-143) *)

PAYLOAD_BITS == 64

\* digestToBits(digest, bitCount): bit i is bit 7 - i % 8 of byte i \div 8
digestToBits(digest, bitCount) ==
    [k \in 1..bitCount |->
        (digest[((k - 1) \div 8) + 1] \div Pow2(7 - ((k - 1) % 8))) % 2] \o <<>>

-----------------------------------------------------------------------------
(* Block selection (src/src/core/extract.ts, lines 91-120) *)

UNDEFINED == 0 - 1      \* the value of an array slot that holds no number

\* [indices[i], indices[sw]] = [indices[sw], indices[i]] with 0-based i, sw;
\* sw = indices.length reads undefined and grows the array by one
SwapAt(ind, i, sw) ==
    IF sw + 1 > Len(ind)
    THEN Append([ind EXCEPT ![i + 1] = UNDEFINED], ind[i + 1])
    ELSE [ind EXCEPT ![i + 1] = ind[sw + 1], ![sw + 1] = ind[i + 1]]

\* one iteration of the shuffle loop on [ind, st]
ShuffleStep(a, i) ==
    Only({ Only({[ind |-> SwapAt(a.ind, i, sw), st |-> s] :
                   sw \in {NextIntOf(s.s3, i + 1)}}) :
            s \in {NextState(a.st)}})

RECURSIVE ShuffleRange(_, _, _)
\* the iterations hi, ..., lo continued from the result of the earlier ones
ShuffleRest(earlier, hi, lo) == Only({ShuffleRange(a, hi, lo) : a \in {earlier}})

\* the iterations i = hi, hi - 1, ..., lo of the shuffle loop
ShuffleRange(a, hi, lo) ==
    IF hi < lo THEN a
    ELSE IF hi = lo THEN ShuffleStep(a, hi)
    ELSE ShuffleRest(ShuffleRange(a, hi, ((hi + lo) \div 2) + 1), (hi + lo) \div 2, lo)

\* a createBlockAssignments that shuffles whenever there is a block
createBlockAssignments_ShuffleAnyway(st, totalBlocks, encodedLength) ==
    LET div == totalBlocks \div encodedLength
        blocksPerBit == IF div > 1 THEN div ELSE 1
        requiredAssignments == blocksPerBit * encodedLength
        indices == [k \in 1..totalBlocks |-> k - 1] \o <<>>
    IN IF totalBlocks = 0
       THEN [blocksPerBit |-> blocksPerBit, shuffled |-> FALSE,
             assignments |-> <<>>, prng |-> st]
       ELSE Only({[blocksPerBit |-> blocksPerBit, shuffled |-> TRUE,
                   assignments |-> SubSeq(done.ind, 1, IF requiredAssignments < Len(done.ind)
                                                  THEN requiredAssignments ELSE Len(done.ind)),
                   prng |-> done.st] :
                    done \in {ShuffleRest([ind |-> indices, st |-> st],
                                          totalBlocks - 1, 1)}})

\* createBlockAssignments(prng, totalBlocks, encodedLength): blocksPerBit, the
\* assignments (shuffled = FALSE stands for assignments = null) and the state
\* the call leaves the prng in
createBlockAssignments(st, totalBlocks, encodedLength) ==
    LET div == totalBlocks \div encodedLength
        blocksPerBit == IF div > 1 THEN div ELSE 1
        requiredAssignments == blocksPerBit * encodedLength
        indices == [k \in 1..totalBlocks |-> k - 1] \o <<>>
    IN IF requiredAssignments > totalBlocks
       THEN [blocksPerBit |-> blocksPerBit, shuffled |-> FALSE,
             assignments |-> <<>>, prng |-> st]
       ELSE Only({[blocksPerBit |-> blocksPerBit, shuffled |-> TRUE,
                   assignments |-> SubSeq(done.ind, 1, requiredAssignments),
                   prng |-> done.st] :
                    done \in {ShuffleRest([ind |-> indices, st |-> st],
                                          totalBlocks - 1, 1)}})

\* the 15 mid-frequency positions [u, v]
MID_FREQ_COEFFS ==
    << <<1, 2>>, <<2, 1>>, <<2, 2>>, <<3, 1>>, <<1, 3>>, <<3, 2>>, <<2, 3>>, <<3, 3>>,
       <<4, 1>>, <<1, 4>>, <<4, 2>>, <<2, 4>>, <<4, 3>>, <<3, 4>>, <<4, 4>> >>

\* The sampling loop shared by embedWatermark (lines 65-79 of part_006) and
\* extractWatermark (lines 44-52): for every encoded bit, blocksPerBit samples,
\* each a block index (from the assignments, or prng.nextInt(totalBlocks)) and
\* a coefficient index prng.nextInt(15).  block[k], coeff[k] are those of the
\* k-th sample; sample k belongs to encoded bit (k - 1) \div blocksPerBit.
Schedule(bits, totalBlocks, encodedLength) ==
    Only({ Only({ [blocksPerBit |-> ba.blocksPerBit,
                   count |-> n,
                   block |-> [k \in 1..n |->
                                IF ba.shuffled THEN ba.assignments[k]
                                ELSE NextIntOf(words[2 * k - 1], totalBlocks)] \o <<>>,
                   coeff |-> [k \in 1..n |->
                                NextIntOf(words[IF ba.shuffled THEN k ELSE 2 * k],
                                          Len(MID_FREQ_COEFFS))] \o <<>>] :
                    n \in {ba.blocksPerBit * encodedLength},
                    words \in {Stream(ba.prng, IF ba.shuffled
                                               THEN ba.blocksPerBit * encodedLength
                                               ELSE 2 * ba.blocksPerBit * encodedLength).outs} }) :
            ba \in {createBlockAssignments(Only({SeededPRNG(seed) : seed \in {bits}}),
                                           totalBlocks, encodedLength)} })

-----------------------------------------------------------------------------
(* Pixels (src/unnamed/part_006).  An ImageData is [width, height, data],    *)
(* data the RGBA bytes as one sequence of 4 width bytes per row of pixels;  *)
(* a luminance is an integer count of 1 / YSCALE.                            *)

EMBEDDING_STRENGTH == 25    \* the magnitude floor S, in luminance levels

\* data[k] of the ImageData, k from 0: byte k % (4 width) of row k / (4 width)
ByteAt(img, k) == img.data[(k \div (4 * img.width)) + 1][(k % (4 * img.width)) + 1]

\* the Uint8ClampedArray of a width x height image with byte(k) at index k
PixelArray(byte(_), width, height) ==
    [y \in 1..height |->
        [c \in 1..(4 * width) |-> byte((y - 1) * 4 * width + c - 1)] \o <<>>] \o <<>>

\* data.length
ByteLength(img) == SumUpTo([y \in 1..Len(img.data) |-> Len(img.data[y])], Len(img.data))

\* y[i] of extractLuminance for the 0-based pixel i: 0.299 r + 0.587 g + 0.114 b
LumaAt(img, i) ==
    (YSCALE \div 1000) * (299 * ByteAt(img, 4 * i) + 587 * ByteAt(img, 4 * i + 1)
                          + 114 * ByteAt(img, 4 * i + 2))

ZeroBlock == LET row(r) == LET f(c) == 0 IN Row8(f) IN Row8(row)

\* the 8x8 block at block column bx and block row by, zero outside the image
BlockAt(img, bx, by) ==
    LET row(r) ==
          LET f(c) ==
                LET srcX == bx * BLOCK_SIZE + (c - 1)
                    srcY == by * BLOCK_SIZE + (r - 1)
                IN IF srcX < img.width /\ srcY < img.height
                   THEN LumaAt(img, srcY * img.width + srcX) ELSE 0
          IN Row8(f)
    IN Row8(row)

\* the block extractWatermark reads for blockIdx: bx = blockIdx % blocksX,
\* by = floor(blockIdx / blocksX); with blocksX = 0 or blockIdx undefined both
\* are NaN, no pixel passes the bounds test and the block stays zero
ExtractBlock(img, blockIdx, blocksX) ==
    IF blockIdx = UNDEFINED \/ blocksX = 0 THEN ZeroBlock
    ELSE BlockAt(img, blockIdx % blocksX, blockIdx \div blocksX)

\* COEFF_AT[u + 1][v + 1]: the 1-based position of [u, v] in MID_FREQ_COEFFS, or 0
COEFF_AT ==
    LET row(u) ==
          LET f(v) == LET hit == {k \in 1..Len(MID_FREQ_COEFFS) :
                                     MID_FREQ_COEFFS[k] = <<u - 1, v - 1>>}
                      IN IF hit = {} THEN 0 ELSE CHOOSE k \in hit : TRUE
          IN Row8(f)
    IN Row8(row)

NoVotes == [c \in 1..15 |-> <<0, 0>>] \o <<>>

\* blockVotes after one more sample k: per block and coefficient the number
\* of votes and the number of 1 votes.  A sample whose block index names no
\* block is stored under a key no block looks up; one whose coefficient is
\* undefined is accounted for by EmbedThrows.
TallyStep(t, sch, encodedBits, k) ==
    LET b == sch.block[k]
        c == sch.coeff[k]
        bit == encodedBits[((k - 1) \div sch.blocksPerBit) + 1]
    IN IF b = UNDEFINED \/ b >= Len(t) \/ c >= Len(MID_FREQ_COEFFS) THEN t
       ELSE [t EXCEPT ![b + 1][c + 1] = <<@[1] + 1, @[2] + bit>>]

RECURSIVE TallyRange(_, _, _, _, _)
TallyRest(earlier, sch, encodedBits, lo, hi) ==
    Only({TallyRange(t, sch, encodedBits, lo, hi) : t \in {earlier}})

\* blockVotes after the samples lo..hi, in order, starting from t
TallyRange(t, sch, encodedBits, lo, hi) ==
    IF hi < lo THEN t
    ELSE IF hi = lo THEN TallyStep(t, sch, encodedBits, lo)
    ELSE TallyRest(TallyRange(t, sch, encodedBits, lo, (lo + hi) \div 2),
                   sch, encodedBits, ((lo + hi) \div 2) + 1, hi)

\* an embedding that gives an exact tie to the bit 1
EmbedInBlock_TieToOne(dctBlock, t) ==
    Only({ LET row(u) ==
                 LET f(v) ==
                       LET c == COEFF_AT[u][v]
                           currentValue == d[u][v]
                       IN IF c = 0 THEN currentValue
                          ELSE IF votes[c][1] = 0 THEN currentValue
                          ELSE IF 2 * votes[c][2] >= votes[c][1]
                               THEN Abs(currentValue) + EMBEDDING_STRENGTH * YSCALE
                               ELSE 0 - (Abs(currentValue) + EMBEDDING_STRENGTH * YSCALE)
                 IN Row8(f)
           IN Row8(row) :
             d \in {dctBlock}, votes \in {t} })

\* an embedding that adds the strength to the coefficient as it is
EmbedInBlock_NoAbs(dctBlock, t) ==
    Only({ LET row(u) ==
                 LET f(v) ==
                       LET c == COEFF_AT[u][v]
                           currentValue == d[u][v]
                       IN IF c = 0 THEN currentValue
                          ELSE IF votes[c][1] = 0 THEN currentValue
                          ELSE IF 2 * votes[c][2] > votes[c][1]
                               THEN currentValue + EMBEDDING_STRENGTH * YSCALE
                               ELSE 0 - (currentValue + EMBEDDING_STRENGTH * YSCALE)
                 IN Row8(f)
           IN Row8(row) :
             d \in {dctBlock}, votes \in {t} })

\* lines 101-123: every voted coefficient of the block gets the majority bit's
\* sign and the magnitude |c| + S; t is the block's votes
EmbedInBlock(dctBlock, t) ==
    Only({ LET row(u) ==
                 LET f(v) ==
                       LET c == COEFF_AT[u][v]
                           currentValue == d[u][v]
                       IN IF c = 0 THEN currentValue
                          ELSE IF votes[c][1] = 0 THEN currentValue
                          ELSE IF 2 * votes[c][2] > votes[c][1]
                               THEN Abs(currentValue) + EMBEDDING_STRENGTH * YSCALE
                               ELSE 0 - (Abs(currentValue) + EMBEDDING_STRENGTH * YSCALE)
                 IN Row8(f)
           IN Row8(row) :
             d \in {dctBlock}, votes \in {t} })

\* a value stored into a Uint8ClampedArray after Math.max(0, Math.min(255, v)):
\* clamped, then rounded to the nearest integer, ties to even
ClampRound(v) ==
    Only({ IF 2 * (c % YSCALE) > YSCALE \/ (2 * (c % YSCALE) = YSCALE /\ (c \div YSCALE) % 2 = 1)
           THEN (c \div YSCALE) + 1 ELSE c \div YSCALE :
             c \in {Only({IF a < 0 THEN 0 ELSE IF a > 255 * YSCALE THEN 255 * YSCALE ELSE a :
                            a \in {v}})} })

\* a reconstructRGB that leaves the alpha byte of the fresh array out of the
\* copy and so returns every pixel opaque
reconstructRGB_OpaqueAlpha(deltaY, img) ==
    Only({ LET rgba(k) == IF k % 4 = 3 THEN 255
                          ELSE ClampRound(ByteAt(i, k) * YSCALE + d[(k \div 4) + 1])
           IN PixelArray(rgba, i.width, i.height) :
             d \in {deltaY}, i \in {img} })

\* reconstructRGB(y, originalRgba, width, height), y given as the difference
\* deltaY[i + 1] = y[i] - originalY of each pixel
reconstructRGB(deltaY, img) ==
    Only({ LET rgba(k) == IF k % 4 = 3 THEN ByteAt(i, k)
                          ELSE ClampRound(ByteAt(i, k) * YSCALE + d[(k \div 4) + 1])
           IN PixelArray(rgba, i.width, i.height) :
             d \in {deltaY}, i \in {img} })

\* a coefficient index past the table leaves coeff undefined; coeff[0] throws
\* a TypeError when the votes of that block are grouped (line 104)
EmbedThrows(sch, totalBlocks) ==
    \E k \in 1..sch.count :
        /\ sch.coeff[k] >= Len(MID_FREQ_COEFFS)
        /\ sch.block[k] # UNDEFINED
        /\ sch.block[k] < totalBlocks

\* lines 81-131: the luminance of each full block after dct2d, the votes of
\* the block and idct2d
EmbedBlocks(img, blocksX, totalBlocks, blockVotes) ==
    [b \in 1..totalBlocks |->
        idct2d(EmbedInBlock(dct2d(BlockAt(img, (b - 1) % blocksX, (b - 1) \div blocksX)),
                            blockVotes[b]))] \o <<>>

\* processedY[i] - originalY of every pixel: zero outside the full blocks
DeltaY(img, blocksX, blocksY, idctBlocks) ==
    [p \in 1..(img.width * img.height) |->
        LET x == (p - 1) % img.width
            y == (p - 1) \div img.width
        IN IF x \div BLOCK_SIZE < blocksX /\ y \div BLOCK_SIZE < blocksY
           THEN idctBlocks[(y \div BLOCK_SIZE) * blocksX + (x \div BLOCK_SIZE) + 1]
                          [(y % BLOCK_SIZE) + 1][(x % BLOCK_SIZE) + 1]
                - LumaAt(img, p - 1)
           ELSE 0] \o <<>>

\* lines 81-143 for a schedule that names only defined coefficients
EmbedPixels(img, blocksX, blocksY, sch, encodedBits) ==
    Only({ Only({ Only({
        [width |-> img.width, height |-> img.height,
         data |-> reconstructRGB(deltaY, img)] :
            deltaY \in {DeltaY(img, blocksX, blocksY, idctBlocks)} }) :
            idctBlocks \in {EmbedBlocks(img, blocksX, blocksX * blocksY, blockVotes)} }) :
            blockVotes \in {TallyRest([b \in 1..(blocksX * blocksY) |-> NoVotes] \o <<>>,
                                      sch, encodedBits, 1, sch.count)} })

\* embedWatermark(imageData, payloadBits): [threw, image]
embedWatermark(imageData, payloadBits) ==
    Only({ Only({ Only({
        IF EmbedThrows(sch, blocksX * blocksY)
        THEN [threw |-> TRUE, image |-> img]
        ELSE [threw |-> FALSE,
              image |-> EmbedPixels(img, blocksX, blocksY, sch, encodedBits)] :
            sch \in {Schedule(bits, blocksX * blocksY, Len(encodedBits))} }) :
            blocksX \in {img.width \div BLOCK_SIZE},
            blocksY \in {img.height \div BLOCK_SIZE},
            encodedBits \in {encodeWithRepetition(bits)} }) :
            img \in {imageData}, bits \in {payloadBits} })

-----------------------------------------------------------------------------
(* Extraction (src/src/core/extract.ts, lines 23-89) *)

\* const [u, v] = coeff throws a TypeError for an undefined coeff (line 69)
ExtractThrows(sch) == \E k \in 1..sch.count : sch.coeff[k] >= Len(MID_FREQ_COEFFS)

\* lines 44-80: the soft value of every encoded bit, as the number of its
\* samples whose coefficient is positive (the vote +1); the soft value
\* (avgVote + 1) / 2 is this number over blocksPerBit.  dcts[b + 1] is dct2d
\* of the block that block index b selects.
NoisyBits(sch, dcts, encodedLength) ==
    LET coeffValue(k) ==
            IF sch.block[k] = UNDEFINED THEN 0
            ELSE dcts[sch.block[k] + 1][MID_FREQ_COEFFS[sch.coeff[k] + 1][1] + 1]
                                       [MID_FREQ_COEFFS[sch.coeff[k] + 1][2] + 1]
        ones(e) == Cardinality({j \in 1..sch.blocksPerBit :
                                   coeffValue(e * sch.blocksPerBit + j) > 0})
    IN [e \in 1..encodedLength |-> ones(e - 1)] \o <<>>

\* extractWatermark(imageData, expectedPayloadBits):
\* [threw, recoveredBits, confNum, confDen], confidence = confNum / confDen
extractWatermark(imageData, expectedPayloadBits) ==
    Only({ Only({ Only({
        IF ExtractThrows(sch)
        THEN [threw |-> TRUE, recoveredBits |-> <<>>, confNum |-> 0, confDen |-> 1]
        ELSE Only({ Only({ Only({
                [threw |-> FALSE, recoveredBits |-> dec.bits,
                 confNum |-> dec.confNum, confDen |-> dec.confDen] :
                    dec \in {decodeWithMajorityVote(noisyBits, sch.blocksPerBit, Len(bits))} }) :
                    noisyBits \in {NoisyBits(sch, dcts, Len(bits) * 3)} }) :
                    dcts \in {[b \in 1..(blocksX * blocksY + 1) |->
                                 dct2d(ExtractBlock(img, b - 1, blocksX))] \o <<>>} }) :
            sch \in {Schedule(bits, blocksX * blocksY, Len(bits) * 3)} }) :
            blocksX \in {img.width \div BLOCK_SIZE},
            blocksY \in {img.height \div BLOCK_SIZE} }) :
            img \in {imageData}, bits \in {expectedPayloadBits} })

-----------------------------------------------------------------------------
(* Visible overlay (src/src/visible/layout.ts, render.ts), with the default  *)
(* options of { enabled: true }: bottom-right, opacity 0.15, one line.       *)
(* What the canvas paints for a text is the browser's: the width of the text *)
(* is taken as half an em per character, and the pixels its glyphs cover as  *)
(* one of the Rasters.                                                       *)

VISIBLE_DEFAULTS ==
    [opacityPct |-> 15, maxWidthPct |-> 35, maxHeightPct |-> 8, marginPct |-> 3,
     minFontSize |-> 10, maxFontSize |-> 36, minMargin |-> 8, maxMargin |-> 48]

Max(a, b) == IF a > b THEN a ELSE b
Min(a, b) == IF a < b THEN a ELSE b

\* computeLayoutConfig(imageWidth, imageHeight, {})
computeLayoutConfig(imageWidth, imageHeight) ==
    LET d == VISIBLE_DEFAULTS
        rawMarginX == (imageWidth * d.marginPct) \div 100
        rawMarginY == (imageHeight * d.marginPct) \div 100
    IN [maxWidth |-> (imageWidth * d.maxWidthPct) \div 100,
        maxHeight |-> (imageHeight * d.maxHeightPct) \div 100,
        marginX |-> Max(d.minMargin, Min(rawMarginX, d.maxMargin)),
        marginY |-> Max(d.minMargin, Min(rawMarginY, d.maxMargin)),
        minFontSize |-> d.minFontSize,
        maxFontSize |-> d.maxFontSize,
        opacityPct |-> d.opacityPct]

\* ctx.measureText(text).width at a font size, for a text of chars characters
measureText(chars, fontSize) == (chars * fontSize) \div 2

\* tryFontSize(...).fits with lineLimit 1: the single line fits the width and
\* lineHeight = fontSize * 1.2 fits the height
tryFontSize(chars, fontSize, config) ==
    /\ measureText(chars, fontSize) <= config.maxWidth
    /\ 12 * fontSize <= 10 * config.maxHeight

RECURSIVE SizingSearch(_, _, _, _, _)
\* the binary search loop of calculateTextSizing; best = 0 stands for null
SizingSearch(chars, config, low, high, best) ==
    IF low > high THEN best
    ELSE LET mid == (low + high) \div 2
         IN IF tryFontSize(chars, mid, config)
            THEN SizingSearch(chars, config, mid + 1, high, mid)
            ELSE SizingSearch(chars, config, low, mid - 1, best)

\* calculateTextSizing(ctx, text, config): [fontSize, fits]
calculateTextSizing(chars, config) ==
    LET best == SizingSearch(chars, config, config.minFontSize, config.maxFontSize, 0)
    IN IF best = 0 THEN [fontSize |-> config.minFontSize, fits |-> FALSE]
       ELSE [fontSize |-> best, fits |-> TRUE]

\* the glyph coverage of a text, by pixel of its box (rx counted leftwards
\* from the anchor, ry downwards from the top): 0 no ink, 1 fill, 2 stroke
Rasters == {"checker"}

\* "checker": fill and stroke alternate in cells of 2 x 2 pixels
Ink(raster, rx, ry) ==
    IF ((rx \div 2) + (ry \div 2)) % 2 = 1 THEN 1 ELSE 2

\* source-over of white (fill) or black (stroke) at globalAlpha = opacity
Blend(old, ink, opacityPct) ==
    IF ink = 0 THEN old
    ELSE (old * (100 - opacityPct) + (IF ink = 1 THEN 255 ELSE 0) * opacityPct + 50)
             \div 100

\* renderVisibleWatermark(imageData, payload, { enabled: true }) on an opaque
\* image: the text ends at x = width - marginX and stands on y = height - marginY
renderVisibleWatermark(imageData, chars, raster) ==
    Only({ Only({ Only({
        LET painted(k) ==
              LET x == (k \div 4) % img.width
                  y == (k \div 4) \div img.width
              IN IF k % 4 = 3 \/ x < x0 \/ x >= x1 \/ y < y0 \/ y >= y1
                 THEN ByteAt(img, k)
                 ELSE Blend(ByteAt(img, k), Ink(raster, x1 - 1 - x, y - y0),
                            config.opacityPct)
        IN [width |-> img.width, height |-> img.height,
            data |-> PixelArray(painted, img.width, img.height)] :
            x1 \in {img.width - config.marginX},
            y1 \in {img.height - config.marginY},
            x0 \in {img.width - config.marginX - measureText(chars, sizing.fontSize)},
            y0 \in {img.height - config.marginY - sizing.fontSize} }) :
            sizing \in {calculateTextSizing(chars, config)} }) :
            img \in {imageData},
            config \in {computeLayoutConfig(imageData.width, imageData.height)} })

-----------------------------------------------------------------------------
(* The public API (src/src/index.ts).  derivePayloadDigest is SHA-256 of the *)
(* payload and a salt, cut to 8 bytes; the model names a payload by its text *)
(* and gives each one a digest.                                              *)

Payloads == {"payload-A", "payload-B", "payload-X", "payload-Z"}

\* the first 8 bytes of derivePayloadDigest(payload)
derivePayloadDigest(payload) ==
    CASE payload = "payload-A" -> <<161, 178, 195, 212, 161, 178, 195, 212>>
      [] payload = "payload-B" -> <<1, 35, 69, 103, 137, 171, 205, 239>>
      [] payload = "payload-X" -> <<37, 220, 243, 210, 218, 37, 105, 60>>
      [] payload = "payload-Z" -> <<102, 202, 197, 150, 144, 126, 139, 90>>

\* the number of characters of the payload text
PayloadChars(payload) == 12

\* MATCH_THRESHOLD = 0.85
MATCH_THRESHOLD == [num |-> 17, den |-> 20]

\* options?.threshold ?? MATCH_THRESHOLD; options = [given, threshold]
thresholdOf(options) == IF options.given THEN options.threshold ELSE MATCH_THRESHOLD

NoOptions == [given |-> FALSE, threshold |-> [num |-> 0, den |-> 1]]

\* lines 197-204: recoveredDigest[byteIndex] |= 1 << (7 - i % 8) for every set bit
packBits(recoveredBits) ==
    [b \in 1..(PAYLOAD_BITS \div 8) |->
        LET bit(k) == recoveredBits[8 * (b - 1) + k + 1] * Pow2(7 - k)
        IN bit(0) + bit(1) + bit(2) + bit(3) + bit(4) + bit(5) + bit(6) + bit(7)] \o <<>>

HexDigit == <<"0", "1", "2", "3", "4", "5", "6", "7",
              "8", "9", "a", "b", "c", "d", "e", "f">>

\* arrayBufferToHex(buffer): two lower-case hex digits per byte, as a sequence
\* of characters
arrayBufferToHex(buffer) ==
    [k \in 1..(2 * Len(buffer)) |->
        LET b == buffer[(k + 1) \div 2]
        IN HexDigit[(IF k % 2 = 1 THEN b \div 16 ELSE b % 16) + 1]] \o <<>>

\* an isMatch that looks at the confidence alone
isMatch_ConfidenceOnly(confNum, confDen, threshold, expectedDigestHex, recoveredDigestHex) ==
    confNum * threshold.den >= threshold.num * confDen

\* confidence >= threshold && expectedDigestHex === recoveredDigestHex
isMatch(confNum, confDen, threshold, expectedDigestHex, recoveredDigestHex) ==
    /\ confNum * threshold.den >= threshold.num * confDen
    /\ expectedDigestHex = recoveredDigestHex

NoBits == <<>>

\* the promise of an API call that rejected
Rejected ==
    [threw |-> TRUE, isMatch |-> FALSE, confNum |-> 0, confDen |-> 1,
     bits |-> NoBits, error |-> ""]

\* verify() on an image, lines 189-215, from the result ex of the
\* extractWatermark call of line 195
verify(ex, expectedDigest, options) ==
    IF ex.threw THEN Rejected
    ELSE [threw |-> FALSE,
          isMatch |-> isMatch(ex.confNum, ex.confDen, thresholdOf(options),
                              arrayBufferToHex(expectedDigest),
                              arrayBufferToHex(packBits(ex.recoveredBits))),
          confNum |-> ex.confNum, confDen |-> ex.confDen,
          bits |-> ex.recoveredBits, error |-> ""]

\* extractCarrierFromPdf(pdfBytes) (part_004, lines 256-385): "bytes" for the
\* contents of the embedded file named watermark-carrier.png, "null" when no
\* such file is found and, by the catch of line 378, when reading or
\* inflating its stream throws
extractCarrierFromPdf(f) ==
    IF ~f.hasCarrier THEN "null"
    ELSE IF ~f.readable THEN "null"
    ELSE "bytes"

\* a verifyPdf that goes on without looking at what extractCarrierFromPdf returned
verifyPdf_NoCarrierCheck(f, ex, expectedDigest, options) ==
    IF ex.threw THEN Rejected ELSE verify(ex, expectedDigest, options)

\* verifyPdf(), lines 218-258: without carrier bytes the fixed answer;
\* decodePngToImageData rejects bytes that are no image; otherwise as verify()
\* on the decoded carrier
verifyPdf(f, ex, expectedDigest, options) ==
    IF extractCarrierFromPdf(f) = "null"
    THEN [threw |-> FALSE, isMatch |-> FALSE, confNum |-> 0, confDen |-> 1,
          bits |-> NoBits, error |-> "No watermark carrier found"]
    ELSE IF ~f.decodes THEN Rejected
    ELSE IF ex.threw THEN Rejected
    ELSE [threw |-> FALSE,
          isMatch |-> isMatch(ex.confNum, ex.confDen, thresholdOf(options),
                              arrayBufferToHex(expectedDigest),
                              arrayBufferToHex(packBits(ex.recoveredBits))),
          confNum |-> ex.confNum, confDen |-> ex.confDen,
          bits |-> ex.recoveredBits, error |-> ""]

-----------------------------------------------------------------------------
(* Files and calls.  A file of kind "image" is a PNG blob, given by the      *)
(* pixels it decodes to; all are opaque, for which the canvas and the PNG    *)
(* codec of encodeImage/decodeImage keep every byte.  Kind "imagedata" is an *)
(* ImageData handed to the core functions directly.  Kind "pdf" is a PDF,    *)
(* given by the pixels of its carrier attachment if it has one.  decodes     *)
(* says whether the bytes of the image (of the carrier, for a PDF) decode to *)
(* pixels, readable whether the stream of the carrier can be read.           *)

MaxWatermarks == 1          \* watermark()/embedWatermark() calls made on one file
MaxVerifies == 1            \* verify() calls made on one file

\* what the last call on the generator returned; seed is the seed of the instance
NoOut == [kind |-> "new", seed |-> <<>>, word |-> {}, max |-> 0, int |-> 0]

NoImage == [width |-> 0, height |-> 0, data |-> <<>>]
NoFile == [kind |-> "none", hasCarrier |-> FALSE, readable |-> TRUE, decodes |-> TRUE,
           img |-> NoImage]
NoCalls == [watermark |-> 0, verify |-> 0]
NoSched == [bits |-> <<>>, totalBlocks |-> 0]
NoTwin == [defined |-> FALSE, threw |-> FALSE, isMatch |-> FALSE]
NoRes ==
    [op |-> "none", payload |-> "", visible |-> FALSE, options |-> NoOptions,
     threw |-> FALSE, isMatch |-> FALSE, confNum |-> 0, confDen |-> 1,
     bits |-> NoBits, error |-> ""]

\* byte ch (0 red .. 3 alpha) of pixel (x, y) of a test picture
PixelAt(style, x, y, ch) ==
    IF style = "gray" THEN (IF ch = 3 THEN 255 ELSE 128)
    ELSE IF style = "texture"
    THEN (IF ch = 0 THEN 100 + ((x * 7 + y * 13) % 23)
          ELSE IF ch = 1 THEN 90 + ((x * 3 + y * 5) % 31)
          ELSE IF ch = 2 THEN 120 + ((x + y * 2) % 17)
          ELSE 255)
    ELSE (IF ch = 0 THEN (x * 37 + y * 11) % 256
          ELSE IF ch = 1 THEN (x * 5 + y * 91 + 40) % 256
          ELSE IF ch = 2 THEN (x * x + 3 * y) % 256
          ELSE 255 - ((x + 2 * y) % 3) * 60)

Picture(width, height, style) ==
    LET byte(k) == PixelAt(style, (k \div 4) % width, (k \div 4) \div width, k % 4)
    IN [width |-> width, height |-> height, data |-> PixelArray(byte, width, height)]

\* the files at hand; marked names the payload of a watermark the picture
\* already carries ("" for none)
Inputs ==
    { [kind |-> "image", hasCarrier |-> FALSE, readable |-> TRUE, decodes |-> TRUE,
       width |-> 4, height |-> 4,
       style |-> "gray", marked |-> ""],
      [kind |-> "image", hasCarrier |-> FALSE, readable |-> TRUE, decodes |-> TRUE,
       width |-> 20, height |-> 4,
       style |-> "texture", marked |-> ""],
      [kind |-> "image", hasCarrier |-> FALSE, readable |-> TRUE, decodes |-> TRUE,
       width |-> 16, height |-> 16,
       style |-> "texture", marked |-> ""],
      [kind |-> "image", hasCarrier |-> FALSE, readable |-> TRUE, decodes |-> TRUE,
       width |-> 64, height |-> 64,
       style |-> "gray", marked |-> ""],
      [kind |-> "image", hasCarrier |-> FALSE, readable |-> TRUE, decodes |-> TRUE,
       width |-> 128, height |-> 96,
       style |-> "gray", marked |-> ""],
      [kind |-> "image", hasCarrier |-> FALSE, readable |-> TRUE, decodes |-> TRUE,
       width |-> 128, height |-> 96,
       style |-> "gray", marked |-> "payload-A"],
      [kind |-> "image", hasCarrier |-> FALSE, readable |-> TRUE, decodes |-> TRUE,
       width |-> 256, height |-> 256,
       style |-> "gray", marked |-> ""],
      [kind |-> "imagedata", hasCarrier |-> FALSE, readable |-> TRUE, decodes |-> TRUE,
       width |-> 16, height |-> 16,
       style |-> "alpha", marked |-> ""],
      [kind |-> "pdf", hasCarrier |-> FALSE, readable |-> TRUE, decodes |-> TRUE,
       width |-> 0, height |-> 0,
       style |-> "gray", marked |-> ""],
      [kind |-> "pdf", hasCarrier |-> TRUE, readable |-> TRUE, decodes |-> TRUE,
       width |-> 16, height |-> 16, style |-> "texture", marked |-> ""],
      \* bytes that are no image; a carrier whose stream does not inflate; a
      \* carrier whose bytes are no PNG
      [kind |-> "image", hasCarrier |-> FALSE, readable |-> TRUE, decodes |-> FALSE,
       width |-> 0, height |-> 0, style |-> "gray", marked |-> ""],
      [kind |-> "pdf", hasCarrier |-> TRUE, readable |-> FALSE, decodes |-> TRUE,
       width |-> 0, height |-> 0, style |-> "gray", marked |-> ""],
      [kind |-> "pdf", hasCarrier |-> TRUE, readable |-> TRUE, decodes |-> FALSE,
       width |-> 0, height |-> 0, style |-> "gray", marked |-> ""] }

\* options of verify(): none, or a threshold
Options ==
    { NoOptions,
      [given |-> TRUE, threshold |-> [num |-> 0, den |-> 1]],
      [given |-> TRUE, threshold |-> [num |-> 1, den |-> 2]],
      [given |-> TRUE, threshold |-> [num |-> 1, den |-> 1]] }

Init ==
    /\ prng = FallbackState
    /\ prngOut = NoOut
    /\ prngCalls = 0
    /\ file = NoFile
    /\ marks = <<>>
    /\ res = NoRes
    /\ twin = NoTwin
    /\ calls = NoCalls
    /\ sched = NoSched

\* the pixels of an input file: the picture, watermarked if it is to carry one
InputImage(input) ==
    LET picture == Picture(input.width, input.height, input.style)
    IN IF input.marked = "" THEN picture
       ELSE embedWatermark(picture,
                digestToBits(derivePayloadDigest(input.marked), PAYLOAD_BITS)).image

\* the caller opens a file
Load(input) ==
    /\ file.kind = "none"
    /\ file' = [kind |-> input.kind, hasCarrier |-> input.hasCarrier,
                readable |-> input.readable, decodes |-> input.decodes,
                img |-> InputImage(input)]
    /\ marks' = IF input.marked = "" THEN <<>>
                ELSE <<[payload |-> input.marked, visible |-> FALSE]>>
    /\ UNCHANGED <<res, twin, calls, prngVars, sched>>

\* the caller drops the file
Close ==
    /\ file.kind # "none"
    /\ file' = NoFile
    /\ marks' = <<>>
    /\ res' = NoRes
    /\ twin' = NoTwin
    /\ calls' = NoCalls
    /\ UNCHANGED <<prngVars, sched>>

\* an exception ends the caller's sequence of calls on the file
CanMark == ~res.threw /\ calls.verify = 0 /\ calls.watermark < MaxWatermarks
CanVerify == ~res.threw /\ calls.verify < MaxVerifies

\* watermark(image, payload, options) on a PNG with pixels img, lines 84-106
\* (decodeImage of line 84 rejects bytes that are no image):
\* the outcomes of the call, one without options and one per raster with
\* { visible: { enabled: true } }.  image is the blob returned; twin is the
\* answer of verify(blob, payload) for the blob of the call without options.
watermark(img, payload) ==
    Only({ Only({
        IF em.threw
        THEN {[threw |-> TRUE, visible |-> FALSE, image |-> img, twin |-> NoTwin]}
        ELSE {[threw |-> FALSE, visible |-> FALSE, image |-> em.image, twin |-> NoTwin]}
             \cup
             { Only({[threw |-> FALSE, visible |-> TRUE,
                      image |-> renderVisibleWatermark(em.image, PayloadChars(payload), raster),
                      twin |-> [defined |-> TRUE, threw |-> plain.threw,
                                isMatch |-> plain.isMatch]] :
                        plain \in {verify(extractWatermark(em.image, payloadBits),
                                          digest, NoOptions)}}) :
                 raster \in Rasters } :
            em \in {embedWatermark(img, payloadBits)} }) :
            digest \in {derivePayloadDigest(payload)},
            payloadBits \in {digestToBits(derivePayloadDigest(payload), PAYLOAD_BITS)} })

\* the caller replaces the file by the blob watermark() returns
Watermark(payload) ==
    /\ file.kind = "image"
    /\ CanMark
    /\ calls' = [calls EXCEPT !.watermark = @ + 1]
    /\ \E out \in IF file.decodes THEN watermark(file.img, payload)
                   ELSE {[threw |-> TRUE, visible |-> FALSE, image |-> file.img,
                          twin |-> NoTwin]} :
         /\ res' = [NoRes EXCEPT !.op = "watermark", !.payload = payload,
                                 !.visible = out.visible, !.threw = out.threw]
         /\ file' = [file EXCEPT !.img = out.image]
         /\ marks' = IF out.threw THEN marks
                     ELSE Append(marks, [payload |-> payload, visible |-> out.visible])
         /\ twin' = out.twin
    /\ UNCHANGED <<prngVars, sched>>

\* the caller replaces an ImageData by
\* embedWatermark(imageData, digestToBits(digest, PAYLOAD_BITS))
EmbedWatermark(payload) ==
    /\ file.kind = "imagedata"
    /\ CanMark
    /\ calls' = [calls EXCEPT !.watermark = @ + 1]
    /\ \E em \in {embedWatermark(file.img,
                       digestToBits(derivePayloadDigest(payload), PAYLOAD_BITS))} :
         /\ res' = [NoRes EXCEPT !.op = "embedWatermark", !.payload = payload,
                                 !.threw = em.threw]
         /\ file' = [file EXCEPT !.img = em.image]
         /\ marks' = IF em.threw THEN marks
                     ELSE Append(marks, [payload |-> payload, visible |-> FALSE])
    /\ UNCHANGED <<twin, prngVars, sched>>

\* the answers of verify(file, payload, options), one per options; decodeImage
\* (line 191) rejects bytes that are no image
verifyFile(f, payload) ==
    Only({ Only({
        {[options |-> options,
          result |-> IF f.kind = "pdf" THEN verifyPdf(f, ex, digest, options)
                     ELSE IF ~f.decodes THEN Rejected
                     ELSE verify(ex, digest, options)] : options \in Options} :
            ex \in {extractWatermark(f.img, digestToBits(digest, PAYLOAD_BITS))} }) :
            digest \in {derivePayloadDigest(payload)} })

\* verify(image, payload, options) on a PNG or a PDF
Verify(payload) ==
    /\ file.kind \in {"image", "pdf"}
    /\ CanVerify
    /\ calls' = [calls EXCEPT !.verify = @ + 1]
    /\ \E v \in verifyFile(file, payload) :
         res' = [op |-> "verify", payload |-> payload, visible |-> FALSE,
                 options |-> v.options, threw |-> v.result.threw,
                 isMatch |-> v.result.isMatch,
                 confNum |-> v.result.confNum, confDen |-> v.result.confDen,
                 bits |-> v.result.bits, error |-> v.result.error]
    /\ UNCHANGED <<file, marks, twin, prngVars, sched>>

Next ==
    \/ \E input \in Inputs : Load(input)
    \/ \E payload \in Payloads : Watermark(payload)
    \/ \E payload \in Payloads : EmbedWatermark(payload)
    \/ \E payload \in Payloads : Verify(payload)
    \/ Close

Spec == Init /\ [][Next]_vars

-----------------------------------------------------------------------------
(* Properties of the API, stated on the answer res of the last call, the     *)
(* watermarks marks the file carries and the file itself.                    *)

\* C1: an answer of verify() on an image or on a PDF with a carrier has
\* isMatch = true exactly when the confidence is at least the threshold
\* (options.threshold when given, 0 included, and 0.85 otherwise) and the
\* recovered bits are, packed most significant bit first, the 8 bytes of the
\* expected digest.
C1_MatchPredicate ==
    (res.op = "verify" /\ ~res.threw /\ res.error = "") =>
        LET threshold == IF res.options.given THEN res.options.threshold
                         ELSE [num |-> 85, den |-> 100]
            expected == derivePayloadDigest(res.payload)
            sameDigest ==
                \A i \in 0..63 :
                    res.bits[i + 1] = (expected[(i \div 8) + 1] \div Pow2(7 - (i % 8))) % 2
        IN res.isMatch <=> (/\ res.confNum * threshold.den >= threshold.num * res.confDen
                            /\ sameDigest)

\* a verify() without options that answered isMatch = true
C1_Matched ==
    /\ res.op = "verify"
    /\ file.kind = "image"
    /\ ~res.options.given
    /\ res.isMatch

C3_NegativeMatch ==
    (/\ res.op = "verify"
     /\ calls.watermark = 1
     /\ marks # <<>>
     /\ ~marks[Len(marks)].visible
     /\ marks[Len(marks)].payload # res.payload) => ~res.isMatch

\* C4: verify() on an image that decodes and was never watermarked does not
\* throw and answers isMatch = false with a confidence of at most 0.3.
C4_UnmarkedLowConfidence ==
    (res.op = "verify" /\ file.kind = "image" /\ file.decodes /\ marks = <<>>) =>
        /\ ~res.threw
        /\ ~res.isMatch
        /\ 10 * res.confNum <= 3 * res.confDen

\* C5: the confidence of verify() is the share of recovered bits that agree
\* with the expected digest's bits, so a confidence of 1.0 is returned only
\* when every recovered bit agrees.
C5_ConfidenceIsBitMatchRatio ==
    (res.op = "verify" /\ ~res.threw /\ res.error = "" /\ res.confNum = res.confDen) =>
        res.bits = digestToBits(derivePayloadDigest(res.payload), PAYLOAD_BITS)

\* C6: a call of embedWatermark (directly, or by watermark() without the
\* overlay) that returns leaves the width, the height and the length
\* 4 * width * height of the pixel buffer as they were, and the alpha byte
\* of every pixel too.
C6_ShapePreserved ==
    [][(calls'.watermark = calls.watermark + 1 /\ ~res'.threw /\ ~res'.visible) =>
          /\ file'.img.width = file.img.width
          /\ file'.img.height = file.img.height
          /\ ByteLength(file'.img) = ByteLength(file.img)
          /\ ByteLength(file'.img) = 4 * file.img.width * file.img.height
          /\ \A p \in 0..(file.img.width * file.img.height - 1) :
                 ByteAt(file'.img, 4 * p + 3) = ByteAt(file.img, 4 * p + 3)]_vars

\* an ImageData with pixels that are not opaque went through embedWatermark,
\* which changed it
C6_EmbeddedTranslucent ==
    /\ res.op = "embedWatermark"
    /\ ~res.threw
    /\ \E p \in 0..(file.img.width * file.img.height - 1) :
           ByteAt(file.img, 4 * p + 3) < 255
    /\ file.img # Picture(file.img.width, file.img.height, "alpha")

\* C7: on an image (one that decodes) with width < 8 or height < 8 no call throws, and
\* embedWatermark returns the pixels it was given.
C7_TooSmallImage ==
    /\ []((file.kind = "image" /\ file.decodes
             /\ (file.img.width < 8 \/ file.img.height < 8)) => ~res.threw)
    /\ [][(/\ file.kind = "image"
           /\ file.decodes
           /\ (file.img.width < 8 \/ file.img.height < 8)
           /\ calls'.watermark = calls.watermark + 1
           /\ ~res'.visible) => file'.img = file.img]_vars

Undecodable(f) ==
    \/ f.kind = "image" /\ ~f.decodes
    \/ f.kind = "pdf" /\ f.hasCarrier /\ (~f.readable \/ ~f.decodes)

\* C14: verify() on a file that cannot be decoded rejects (the failure reaches
\* the caller as an exception); it does not return an answer with
\* isMatch = false.
C14_UndecodableIsFailure ==
    (res.op = "verify" /\ Undecodable(file)) => res.threw

\* C15: verify() on a PDF without an embedded file watermark-carrier.png
\* returns {isMatch: false, confidence: 0, error: 'No watermark carrier
\* found'} and does not throw, whatever the payload and the threshold.
C15_NoCarrierAnswer ==
    (res.op = "verify" /\ file.kind = "pdf" /\ ~file.hasCarrier) =>
        /\ ~res.threw
        /\ ~res.isMatch
        /\ res.confNum = 0
        /\ res.error = "No watermark carrier found"

\* verify() answered on a PDF without carrier, asked with the threshold 0
C15_NoCarrierThresholdZero ==
    /\ res.op = "verify"
    /\ file.kind = "pdf"
    /\ ~file.hasCarrier
    /\ res.options.given
    /\ res.options.threshold.num = 0
    /\ res.payload = "payload-B"

-----------------------------------------------------------------------------
(* The SeededPRNG object on its own: construction, next(), nextInt(max) *)

MaxCalls == 20          \* next() calls followed on one instance

\* the 64-element 0/1 array whose XOR-fold (bit p of the fold = bits[p] xor
\* bits[p + 32]) is the word f: the shape of seed embed and extract pass
BitSeed(f) == [i \in 1..64 |-> IF (i - 1) \in f THEN 1 ELSE 0]

Fold3 == WordOf(30553, 40959)       \* 0x77599fff
Fold18 == WordOf(13170, 11631)      \* 0x33722d6f

\* 29 bytes whose nibbles at 0, 4, .., 28 give state0 = 0xffc007ff, states 1..3 = 0
OneSeed ==
    [i \in 1..29 |-> IF i = 1 \/ i = 5 \/ i = 25 \/ i = 29 THEN 15
                     ELSE IF i = 9 THEN 7 ELSE IF i = 21 THEN 12 ELSE 0]

\* 32 bytes, the last one 0xff: its shift by 31 keeps one bit of it
HighSeed == [i \in 1..32 |-> IF i = 32 THEN 255 ELSE 0]

\* seeds of the unit tests (prng.test.ts), bit-array seeds, and OneSeed
Seeds ==
    { <<42>>, <<1, 2, 3>>, <<1, 2, 3, 4, 5, 6, 7, 8>>, <<>>, <<0, 0, 0, 0>>,
      BitSeed(Fold3), BitSeed(Fold18), BitSeed({0, 5, 17, 30}), OneSeed, HighSeed }

Maxes == {1, 2, 15, 100}

InitPrng ==
    /\ \E seed \in Seeds :
          /\ prng = SeededPRNG(seed)
          /\ prngOut = [NoOut EXCEPT !.seed = seed]
    /\ prngCalls = 0
    /\ file = NoFile
    /\ marks = <<>>
    /\ res = NoRes
    /\ twin = NoTwin
    /\ calls = NoCalls
    /\ sched = NoSched

\* new SeededPRNG(seed)
Construct(seed) ==
    /\ prngCalls > 0
    /\ prng' = SeededPRNG(seed)
    /\ prngOut' = [NoOut EXCEPT !.seed = seed]
    /\ prngCalls' = 0
    /\ UNCHANGED <<codecVars, sched>>

\* prng.next(): the value returned is word / 0xffffffff
Next_ ==
    /\ prngCalls < MaxCalls
    /\ prng' = NextState(prng)
    /\ prngOut' = [kind |-> "next", seed |-> prngOut.seed, word |-> NextState(prng).s3, max |-> 0, int |-> 0]
    /\ prngCalls' = prngCalls + 1
    /\ UNCHANGED <<codecVars, sched>>

\* prng.nextInt(max)
NextInt(max) ==
    /\ prngCalls < MaxCalls
    /\ prng' = NextState(prng)
    /\ prngOut' = [kind |-> "nextInt", seed |-> prngOut.seed,
                   word |-> NextState(prng).s3, max |-> max,
                   int |-> NextIntOf(NextState(prng).s3, max)]
    /\ prngCalls' = prngCalls + 1
    /\ UNCHANGED <<codecVars, sched>>

NextPrng ==
    \/ \E seed \in Seeds : Construct(seed)
    \/ Next_
    \/ \E max \in Maxes : NextInt(max)

SpecPrng == InitPrng /\ [][NextPrng]_vars

C10_NextIntInRange ==
    prngOut.kind = "nextInt" => (prngOut.int >= 0 /\ prngOut.int < prngOut.max)

\* bit b of the byte value v
ByteBit(v, b) == (v \div Pow2(b)) % 2 = 1

\* Word j after XORing into it every byte seed[m] with m mod 4 = j, shifted
\* left by Shift(m) within 32 bits
XorOfBytes(seed, j, Shift(_)) ==
    {b \in WordBits :
        Cardinality({m \in 0..(Len(seed) - 1) :
                        /\ m % 4 = j
                        /\ b >= Shift(m)
                        /\ b - Shift(m) <= 7
                        /\ ByteBit(seed[m + 1], b - Shift(m))}) % 2 = 1}

\* The state of a new generator when seed[m] is shifted by Shift(m)
SeededBy(seed, Shift(_)) ==
    LET s == [s0 |-> XorOfBytes(seed, 0, Shift), s1 |-> XorOfBytes(seed, 1, Shift),
              s2 |-> XorOfBytes(seed, 2, Shift), s3 |-> XorOfBytes(seed, 3, Shift)]
    IN IF s = [s0 |-> {}, s1 |-> {}, s2 |-> {}, s3 |-> {}]
       THEN [s0 |-> WordOf(4660, 22136), s1 |-> WordOf(39612, 57072),
             s2 |-> WordOf(65244, 47768), s3 |-> WordOf(30292, 12816)]
       ELSE s

ShiftOfIndex(m) == m % 32
ShiftOfIndexPlusLane(m) == (m + (m % 4)) % 32

\* C20, as stated: the state of a new SeededPRNG is the XOR of every seed byte
\* seed[i] into word s[i mod 4], the byte shifted left by ((i + j) mod 32)
\* with j = i mod 4; four zero words are replaced by (0x12345678, 0x9abcdef0,
\* 0xfedcba98, 0x76543210), and the state is never all-zero
C20_SeedShiftIndexPlusLane ==
    prngOut.kind = "new" =>
        /\ prng = SeededBy(prngOut.seed, ShiftOfIndexPlusLane)
        /\ prng # [s0 |-> {}, s1 |-> {}, s2 |-> {}, s3 |-> {}]

\* C20, amended: the state of a new SeededPRNG is the XOR of every seed byte
\* seed[i] into word s[i mod 4], the byte shifted left by (i mod 32) within
\* 32 bits; four zero words are replaced by (0x12345678, 0x9abcdef0,
\* 0xfedcba98, 0x76543210), and the state is never all-zero
C20_Seeding ==
    prngOut.kind = "new" =>
        /\ prng = SeededBy(prngOut.seed, ShiftOfIndex)
        /\ prng # [s0 |-> {}, s1 |-> {}, s2 |-> {}, s3 |-> {}]

\* A generator has been made from the eight bytes 1..8: word 1 holds
\* (2 << 1) ^ (6 << 5) = 0xc4
C20_EightByteSeed ==
    /\ prngOut.kind = "new"
    /\ prngOut.seed = <<1, 2, 3, 4, 5, 6, 7, 8>>
    /\ prng.s1 = {2, 6, 7}

-----------------------------------------------------------------------------
(* The repetition code on its own: encodeWithRepetition on bit strings, and  *)
(* decodeWithMajorityVote on what it returned and on arrays of soft values.  *)
(* res is the last call: its arguments and what it returned.                 *)

MaxBits == 6            \* the longest bit string encoded

\* the bit strings of up to MaxBits bits
BitStrings == UNION {[1..n -> {0, 1}] : n \in 0..MaxBits}

\* Float32Arrays of soft values, as numerators over den: all those of halves
\* for one and two bits, the arrays of ecc.test.ts (in twentieths), and one
\* shorter than 3 * bitCount
SoftInputs ==
    {[noisy |-> n, den |-> 2, bitCount |-> 1] : n \in [1..3 -> 0..2]}
    \cup {[noisy |-> n, den |-> 2, bitCount |-> 2] : n \in [1..6 -> 0..2]}
    \cup {[noisy |-> <<18, 16, 19, 2, 4, 1>>, den |-> 20, bitCount |-> 2],
          [noisy |-> <<12, 14, 13, 8, 6, 7>>, den |-> 20, bitCount |-> 2],
          [noisy |-> <<10, 10, 10, 10, 10, 10>>, den |-> 20, bitCount |-> 2],
          [noisy |-> <<20, 20, 20, 20>>, den |-> 20, bitCount |-> 2]}

\* encodeWithRepetition(bits)
Encode(bits) ==
    /\ res' = [op |-> "encodeWithRepetition", bits |-> bits,
               encoded |-> encodeWithRepetition(bits)]
    /\ UNCHANGED <<file, marks, twin, calls, prngVars, sched>>

\* decodeWithMajorityVote(new Float32Array(encoded), bits.length) on the array
\* the last call returned
DecodeEncoded ==
    /\ res.op = "encodeWithRepetition"
    /\ res' = [op |-> "decodeEncoded", bits |-> res.bits, encoded |-> res.encoded,
               out |-> decodeWithMajorityVote(res.encoded, 1, Len(res.bits))]
    /\ UNCHANGED <<file, marks, twin, calls, prngVars, sched>>

\* decodeWithMajorityVote(noisyBits, bitCount)
Decode(in) ==
    /\ res' = [op |-> "decodeWithMajorityVote", noisy |-> in.noisy, den |-> in.den,
               bitCount |-> in.bitCount,
               out |-> decodeWithMajorityVote(in.noisy, in.den, in.bitCount)]
    /\ UNCHANGED <<file, marks, twin, calls, prngVars, sched>>

MaxFlipBits == 3        \* the longest bit string decoded with flipped copies

\* encoded with copy flips[i] (1, 2 or 3; 0 for none) of bit i turned over
FlipCopies(encoded, flips) ==
    [k \in 1..Len(encoded) |->
        IF flips[((k - 1) \div REPETITION_FACTOR) + 1] = ((k - 1) % REPETITION_FACTOR) + 1
        THEN 1 - encoded[k] ELSE encoded[k]] \o <<>>

\* decodeWithMajorityVote(noisyBits, bits.length) on the array the last call
\* returned, with at most one of the three copies of each bit turned over
DecodeFlipped(flips) ==
    /\ res.op = "encodeWithRepetition"
    /\ Len(res.bits) <= MaxFlipBits
    /\ DOMAIN flips = 1..Len(res.bits)
    /\ res' = [op |-> "decodeFlipped", bits |-> res.bits, flips |-> flips \o <<>>,
               noisy |-> FlipCopies(res.encoded, flips),
               out |-> decodeWithMajorityVote(FlipCopies(res.encoded, flips), 1,
                                              Len(res.bits))]
    /\ UNCHANGED <<file, marks, twin, calls, prngVars, sched>>

NextEcc ==
    \/ \E bits \in BitStrings : Encode(bits)
    \/ DecodeEncoded
    \/ \E in \in SoftInputs : Decode(in)
    \/ \E n \in 0..MaxFlipBits : \E flips \in [1..n -> 0..REPETITION_FACTOR] :
            DecodeFlipped(flips)

SpecEcc == Init /\ [][NextEcc]_vars

\* C11: encodeWithRepetition(b) has length 3 |b| and holds b[i] at 3i, 3i + 1
\* and 3i + 2; decodeWithMajorityVote of it, read as soft values 0.0 and 1.0,
\* returns the bits of b and, for a b of at least one bit, the confidence 1.
C11_EccRoundTrip ==
    /\ (res.op \in {"encodeWithRepetition", "decodeEncoded"}) =>
          /\ Len(res.encoded) = 3 * Len(res.bits)
          /\ \A i \in 0..(Len(res.bits) - 1) : \A j \in 0..2 :
                 res.encoded[3 * i + j + 1] = res.bits[i + 1]
    /\ (res.op = "decodeEncoded") =>
          /\ Len(res.out.bits) = Len(res.bits)
          /\ \A i \in 1..Len(res.bits) : res.out.bits[i] = res.bits[i]
          /\ Len(res.bits) >= 1 =>
                (res.out.confDen > 0 /\ res.out.confNum = res.out.confDen)

\* a string of MaxBits bits with both values in it went through the round trip
C11_RoundTripDone ==
    /\ res.op = "decodeEncoded"
    /\ Len(res.bits) = MaxBits
    /\ \E i, j \in 1..MaxBits : res.bits[i] = 1 /\ res.bits[j] = 0

\* C12: for an array of 3 * bitCount soft values in [0, 1], bit i decodes to 1
\* exactly when the mean of its three values is above 0.5 (a mean of 0.5 gives
\* 0); the confidence is the mean over the bits of |mean - 0.5| * 2, lies in
\* [0, 1] and is 0 when every soft value is 0.5.
C12_MajorityVote ==
    (/\ res.op = "decodeWithMajorityVote"
     /\ res.bitCount >= 1
     /\ Len(res.noisy) = 3 * res.bitCount) =>
        LET \* the sum of the three soft values of bit i (from 1), times den
            sum3(i) == res.noisy[3 * i - 2] + res.noisy[3 * i - 1] + res.noisy[3 * i]
            \* |mean - 0.5| * 2 of bit i, times 3 den
            dist(i) == IF 2 * sum3(i) >= 3 * res.den THEN 2 * sum3(i) - 3 * res.den
                       ELSE 3 * res.den - 2 * sum3(i)
            total == SumUpTo([i \in 1..res.bitCount |-> dist(i)], res.bitCount)
        IN /\ Len(res.out.bits) = res.bitCount
           /\ \A i \in 1..res.bitCount :
                 /\ (res.out.bits[i] = 1) <=> (2 * sum3(i) > 3 * res.den)
                 /\ res.out.bits[i] \in {0, 1}
           /\ res.out.confDen > 0
           /\ res.out.confNum * (3 * res.den * res.bitCount) = total * res.out.confDen
           /\ 0 <= res.out.confNum /\ res.out.confNum <= res.out.confDen
           /\ (\A k \in 1..Len(res.noisy) : 2 * res.noisy[k] = res.den) =>
                 res.out.confNum = 0

\* a decode with a bit whose mean is exactly 0.5 next to a bit whose mean
\* is above it
C12_TieDecoded ==
    /\ res.op = "decodeWithMajorityVote"
    /\ res.bitCount = 2
    /\ Len(res.noisy) = 6
    /\ 2 * (res.noisy[1] + res.noisy[2] + res.noisy[3]) = 3 * res.den
    /\ res.noisy[1] # res.noisy[2]
    /\ 2 * (res.noisy[4] + res.noisy[5] + res.noisy[6]) > 3 * res.den

\* C30: when at most one of the three hard copies of each bit of
\* encodeWithRepetition(b) is turned over, decodeWithMajorityVote returns
\* exactly b; a bit with a copy turned over adds 1/3 to the sum of the per-bit
\* confidences and an intact bit adds 1
C30_SingleErrorCorrected ==
    res.op = "decodeFlipped" =>
        LET n == Len(res.bits)
            hit == {i \in 1..n : res.flips[i] # 0}
        IN /\ Len(res.noisy) = 3 * n
           /\ \A i \in 1..n :
                 Cardinality({j \in 1..3 : res.noisy[3 * (i - 1) + j] # res.bits[i]})
                     = (IF i \in hit THEN 1 ELSE 0)
           /\ res.out.bits = res.bits
           /\ n >= 1 =>
                 /\ res.out.confDen > 0
                 /\ 3 * n * res.out.confNum
                       = (Cardinality(hit) + 3 * (n - Cardinality(hit))) * res.out.confDen

\* a string with both values in it was decoded with a copy of a 1 and a copy
\* of a 0 turned over and another bit left intact
C30_FlippedDecoded ==
    /\ res.op = "decodeFlipped"
    /\ Len(res.bits) = MaxFlipBits
    /\ \E i, j, k \in 1..MaxFlipBits :
          /\ res.bits[i] = 1 /\ res.flips[i] # 0
          /\ res.bits[j] = 0 /\ res.flips[j] # 0
          /\ res.flips[k] = 0

-----------------------------------------------------------------------------
(* The sampling loops of embedWatermark (part_006, lines 53-79) and of       *)
(* extractWatermark (extract.ts, lines 34-52), each followed draw by draw on *)
(* a generator of its own.  A loop is [phase, prng, blocksPerBit, shuffled,  *)
(* assignments, assignmentIndex, bitIdx, b, picks]; picks are the samples    *)
(* chosen so far, each [bitIdx, b, blockIdx, coeffIdx].                      *)

NewLoop ==
    [phase |-> "new", prng |-> FallbackState, blocksPerBit |-> 0, shuffled |-> FALSE,
     assignments |-> <<>>, assignmentIndex |-> 0, bitIdx |-> 0, b |-> 0, picks |-> <<>>]

\* the payload bits and block counts followed: two digests on no block, six
\* blocks and 192 blocks, and one byte on 48 and on 50 blocks
SchedInputs ==
    {[bits |-> digestToBits(derivePayloadDigest(p), PAYLOAD_BITS), totalBlocks |-> 0] :
        p \in {"payload-Z"}}
    \cup {[bits |-> digestToBits(derivePayloadDigest("payload-A"), PAYLOAD_BITS),
           totalBlocks |-> t] : t \in {6, 192}}
    \cup {[bits |-> digestToBits(<<165>>, 8), totalBlocks |-> t] : t \in {48, 50}}

\* new SeededPRNG(bits) and createBlockAssignments(prng, totalBlocks,
\* encodedLength), up to the first iteration of the loop
BeginLoop(bits, totalBlocks, encodedLength) ==
    Only({[NewLoop EXCEPT !.phase = IF encodedLength = 0 THEN "done" ELSE "loop",
                          !.prng = ba.prng, !.blocksPerBit = ba.blocksPerBit,
                          !.shuffled = ba.shuffled, !.assignments = ba.assignments] :
            ba \in {createBlockAssignments(SeededPRNG(bits), totalBlocks, encodedLength)}})

\* b++ of the inner loop, then bitIdx++ of the outer one: the loop is over
\* when bitIdx reaches encodedLength
Advance(loop, encodedLength) ==
    IF loop.b + 1 < loop.blocksPerBit THEN [loop EXCEPT !.b = @ + 1]
    ELSE [loop EXCEPT !.b = 0, !.bitIdx = @ + 1,
                      !.phase = IF loop.bitIdx + 1 < encodedLength THEN "loop" ELSE "done"]

\* an extractWatermark that draws the coefficient index before the block index
ExtractPick_CoeffFirst(loop, totalBlocks) ==
    Only({ Only({
        [loop EXCEPT !.prng = s2,
                     !.assignmentIndex = IF loop.shuffled THEN @ + 1 ELSE @,
                     !.picks = Append(@, [bitIdx |-> loop.bitIdx, b |-> loop.b,
                                          blockIdx |-> NextIntOf(s2.s3, totalBlocks),
                                          coeffIdx |-> NextIntOf(s1.s3, Len(MID_FREQ_COEFFS))])] :
            s2 \in {NextState(s1)} }) :
            s1 \in {NextState(loop.prng)} })

\* extract.ts, lines 47-52: blockIdx = assignments ? assignments[assignmentIndex++]
\* : prng.nextInt(totalBlocks), then coeffIdx = prng.nextInt(MID_FREQ_COEFFS.length)
ExtractPick(loop, totalBlocks) ==
    IF loop.shuffled
    THEN Only({[loop EXCEPT !.prng = s1, !.assignmentIndex = @ + 1,
                            !.picks = Append(@, [bitIdx |-> loop.bitIdx, b |-> loop.b,
                                                 blockIdx |-> loop.assignments[loop.assignmentIndex + 1],
                                                 coeffIdx |-> NextIntOf(s1.s3, Len(MID_FREQ_COEFFS))])] :
                 s1 \in {NextState(loop.prng)}})
    ELSE Only({ Only({
            [loop EXCEPT !.prng = s2,
                         !.picks = Append(@, [bitIdx |-> loop.bitIdx, b |-> loop.b,
                                              blockIdx |-> NextIntOf(s1.s3, totalBlocks),
                                              coeffIdx |-> NextIntOf(s2.s3, Len(MID_FREQ_COEFFS))])] :
                s2 \in {NextState(s1)} }) :
                s1 \in {NextState(loop.prng)} })

\* part_006, lines 68-72: the same two draws in embedWatermark
EmbedPick(loop, totalBlocks) ==
    IF loop.shuffled
    THEN Only({[loop EXCEPT !.prng = s1, !.assignmentIndex = @ + 1,
                            !.picks = Append(@, [bitIdx |-> loop.bitIdx, b |-> loop.b,
                                                 blockIdx |-> loop.assignments[loop.assignmentIndex + 1],
                                                 coeffIdx |-> NextIntOf(s1.s3, Len(MID_FREQ_COEFFS))])] :
                 s1 \in {NextState(loop.prng)}})
    ELSE Only({ Only({
            [loop EXCEPT !.prng = s2,
                         !.picks = Append(@, [bitIdx |-> loop.bitIdx, b |-> loop.b,
                                              blockIdx |-> NextIntOf(s1.s3, totalBlocks),
                                              coeffIdx |-> NextIntOf(s2.s3, Len(MID_FREQ_COEFFS))])] :
                s2 \in {NextState(s1)} }) :
                s1 \in {NextState(loop.prng)} })

\* the two calls are made on the same payload bits and image size
SamplingStart(in) ==
    /\ sched = NoSched
    /\ sched' = [bits |-> in.bits, totalBlocks |-> in.totalBlocks,
                 embed |-> NewLoop, extract |-> NewLoop]
    /\ UNCHANGED <<codecVars, prngVars>>

\* embedWatermark, lines 53-61
EmbedBegin ==
    /\ sched # NoSched
    /\ sched.embed.phase = "new"
    /\ sched' = [sched EXCEPT !.embed =
                    BeginLoop(sched.bits, sched.totalBlocks,
                              Len(encodeWithRepetition(sched.bits)))]
    /\ UNCHANGED <<codecVars, prngVars>>

\* one iteration of embedWatermark's inner loop, lines 67-78: an undefined
\* coeff is pushed like any other
EmbedSample ==
    /\ sched # NoSched
    /\ sched.embed.phase = "loop"
    /\ sched' = [sched EXCEPT !.embed =
                    Advance(EmbedPick(sched.embed, sched.totalBlocks),
                            Len(encodeWithRepetition(sched.bits)))]
    /\ UNCHANGED <<codecVars, prngVars>>

\* extractWatermark, lines 34-42
ExtractBegin ==
    /\ sched # NoSched
    /\ sched.extract.phase = "new"
    /\ sched' = [sched EXCEPT !.extract =
                    BeginLoop(sched.bits, sched.totalBlocks, Len(sched.bits) * 3)]
    /\ UNCHANGED <<codecVars, prngVars>>

\* one iteration of extractWatermark's inner loop, lines 46-74: an undefined
\* coeff ends the call at "const [u, v] = coeff"
ExtractSample ==
    /\ sched # NoSched
    /\ sched.extract.phase = "loop"
    /\ \E picked \in {ExtractPick(sched.extract, sched.totalBlocks)} :
         sched' = [sched EXCEPT !.extract =
                      IF picked.picks[Len(picked.picks)].coeffIdx >= Len(MID_FREQ_COEFFS)
                      THEN [picked EXCEPT !.phase = "threw"]
                      ELSE Advance(picked, Len(sched.bits) * 3)]
    /\ UNCHANGED <<codecVars, prngVars>>

NextSched ==
    \/ \E in \in SchedInputs : SamplingStart(in)
    \/ EmbedBegin
    \/ EmbedSample
    \/ ExtractBegin
    \/ ExtractSample

SpecSched == Init /\ [][NextSched]_vars

\* C13: on the same bits and the same number of blocks the two loops choose
\* the same samples: the same blocksPerBit and assignments, the same (block
\* index, coefficient index) at every sample both have reached, sample k
\* being sample k % blocksPerBit of encoded bit k \div blocksPerBit, the same
\* generator state after the same number of samples, and the same whole
\* sequence when both ran to the end.
C13_SameSchedule ==
    (sched # NoSched /\ sched.embed.phase # "new" /\ sched.extract.phase # "new") =>
        LET e == sched.embed
            x == sched.extract
            n == Min(Len(e.picks), Len(x.picks))
        IN /\ e.blocksPerBit = x.blocksPerBit
           /\ e.shuffled = x.shuffled
           /\ e.assignments = x.assignments
           /\ \A k \in 1..n :
                 /\ e.picks[k].blockIdx = x.picks[k].blockIdx
                 /\ e.picks[k].coeffIdx = x.picks[k].coeffIdx
                 /\ e.picks[k].bitIdx = x.picks[k].bitIdx
                 /\ e.picks[k].b = x.picks[k].b
                 /\ e.picks[k].bitIdx = (k - 1) \div e.blocksPerBit
                 /\ e.picks[k].b = (k - 1) % e.blocksPerBit
           /\ (Len(e.picks) = Len(x.picks)) => e.prng = x.prng
           /\ (e.phase = "done" /\ x.phase = "done") =>
                 /\ e.picks = x.picks
                 /\ Len(e.picks) = e.blocksPerBit * 3 * Len(sched.bits)

\* both loops ran to the end on a shuffled assignment of two blocks per bit
C13_BothLoopsDone ==
    /\ sched # NoSched
    /\ sched.embed.phase = "done"
    /\ sched.extract.phase = "done"
    /\ sched.embed.shuffled
    /\ sched.embed.blocksPerBit = 2
    /\ Len(sched.extract.picks) = 48

\* ---------------------------------------------------------------------------
\* Page selection of the PDF adapter (pdf/index.ts, resolvePageSelection)
\* ---------------------------------------------------------------------------

MaxTotalPages == 3      \* the largest page count a selection is resolved against
MaxSelected == 3        \* the longest explicit index list

\* Indices an explicit list or a range may name: one below the first page up to
\* one past the last page of the largest document
PageIndexValues == (0 - 1)..(MaxTotalPages + 1)

\* PageSelection of types.ts: 'all' | 'first' | number[] | { from, to }, and an
\* object that is none of them
PageSelections ==
    {[kind |-> "all"], [kind |-> "first"], [kind |-> "other"]}
        \cup {[kind |-> "array", items |-> items] :
                items \in UNION {[1..n -> PageIndexValues] : n \in 0..MaxSelected}}
        \cup {[kind |-> "range", from |-> a, to |-> b] :
                a \in PageIndexValues, b \in PageIndexValues}

\* Array.from({ length }, (_, i) => start + i)
ArrayFrom(length, start) == [i \in 1..length |-> start + i - 1]

\* The range branch without Math.min(from, to) / Math.max(from, to)
resolvePageSelection_AsWritten(selection, totalPages) ==
    IF selection.kind = "all" THEN ArrayFrom(totalPages, 0)
    ELSE IF selection.kind = "first" THEN (IF totalPages > 0 THEN <<0>> ELSE <<>>)
    ELSE IF selection.kind = "array"
    THEN SelectSeq(selection.items, LAMBDA idx : idx >= 0 /\ idx < totalPages)
    ELSE IF selection.kind = "range"
    THEN LET start == Max(0, Min(selection.from, totalPages - 1))
             end == Max(start, Min(selection.to, totalPages - 1))
         IN ArrayFrom(end - start + 1, start)
    ELSE <<>>

resolvePageSelection(selection, totalPages) ==
    IF selection.kind = "all" THEN ArrayFrom(totalPages, 0)
    ELSE IF selection.kind = "first" THEN (IF totalPages > 0 THEN <<0>> ELSE <<>>)
    ELSE IF selection.kind = "array"
    THEN SelectSeq(selection.items, LAMBDA idx : idx >= 0 /\ idx < totalPages)
    ELSE IF selection.kind = "range"
    THEN LET start == Max(0, Min(Min(selection.from, selection.to), totalPages - 1))
             end == Max(start, Min(Max(selection.from, selection.to), totalPages - 1))
         IN ArrayFrom(end - start + 1, start)
    ELSE <<>>

\* resolvePageSelection(selection, totalPages)
Resolve(selection, totalPages) ==
    /\ res' = [op |-> "resolvePageSelection", selection |-> selection,
               totalPages |-> totalPages,
               out |-> resolvePageSelection(selection, totalPages)]
    /\ UNCHANGED <<file, marks, twin, calls, prngVars, sched>>

NextPages ==
    \E selection \in PageSelections, totalPages \in 0..MaxTotalPages :
        Resolve(selection, totalPages)

SpecPages == Init /\ [][NextPages]_vars

\* v moved into [lo, hi]
Clamp(v, lo, hi) == IF v < lo THEN lo ELSE IF v > hi THEN hi ELSE v

\* The positions of items whose element is a page of a document of n pages
ValidPositions(items, n) == {i \in 1..Len(items) : items[i] >= 0 /\ items[i] < n}

\* The k-th valid position, counting from 1
KthValid(items, n, k) ==
    CHOOSE i \in ValidPositions(items, n) :
        Cardinality({j \in ValidPositions(items, n) : j <= i}) = k

\* C17: resolvePageSelection(selection, n) is [0..n-1] for 'all'; [0] for
\* 'first' when n > 0 and [] when n = 0; for an index array its elements that
\* lie in [0, n), in their original order; for a range {from, to} with n > 0
\* the ascending consecutive indices from min(from, to) to max(from, to), both
\* clamped to [0, n-1], so that an inverted range equals its normalized range
C17_PageSelection ==
    res.op = "resolvePageSelection" =>
        LET sel == res.selection
            n == res.totalPages
            out == res.out
        IN /\ sel.kind = "all" =>
                /\ Len(out) = n
                /\ \A i \in 1..n : out[i] = i - 1
           /\ sel.kind = "first" => out = (IF n > 0 THEN <<0>> ELSE <<>>)
           /\ sel.kind = "array" =>
                /\ Len(out) = Cardinality(ValidPositions(sel.items, n))
                /\ \A k \in 1..Len(out) : out[k] = sel.items[KthValid(sel.items, n, k)]
           /\ (sel.kind = "range" /\ n > 0) =>
                LET lo == Clamp(Min(sel.from, sel.to), 0, n - 1)
                    hi == Clamp(Max(sel.from, sel.to), 0, n - 1)
                IN /\ Len(out) = hi - lo + 1
                   /\ \A i \in 1..Len(out) : out[i] = lo + i - 1
                   /\ out = resolvePageSelection(
                                [kind |-> "range", from |-> Min(sel.from, sel.to),
                                 to |-> Max(sel.from, sel.to)], n)

\* An inverted range that reaches past both ends of a three-page document has
\* been resolved to all of its pages
C17_InvertedRangeClamped ==
    /\ res.op = "resolvePageSelection"
    /\ res.selection.kind = "range"
    /\ res.selection.from > res.selection.to
    /\ res.selection.to < 0
    /\ res.selection.from > res.totalPages - 1
    /\ res.totalPages = 3
    /\ res.out = <<0, 1, 2>>

\* An index list with an index before the first page, a repeated page and an
\* index past the last page has been resolved
C17_ListFiltered ==
    /\ res.op = "resolvePageSelection"
    /\ res.selection.kind = "array"
    /\ res.selection.items = <<2, 0 - 1, 0>>
    /\ res.totalPages = 2
    /\ res.out = <<0>>

\* C29: every index returned by resolvePageSelection(selection, n) lies in
\* [0, n), for every shape of selection and every n >= 0; a range that lies
\* wholly outside the document, and any range when n = 0, contributes no
\* index
C29_OnlyValidIndices ==
    res.op = "resolvePageSelection" =>
        /\ \A k \in 1..Len(res.out) : res.out[k] >= 0 /\ res.out[k] < res.totalPages
        /\ res.selection.kind = "range" =>
              ((\/ res.totalPages = 0
                \/ Max(res.selection.from, res.selection.to) < 0
                \/ Min(res.selection.from, res.selection.to) > res.totalPages - 1)
                    => (res.out = <<>>))

\* ---------------------------------------------------------------------------
\* The PDF path that renders every selected page (index.ts of part_009 with
\* renderPdfPages and createPdfFromImages of pdf/index.ts).  A document is the
\* sequence of its pages, a page is named by the raster pdf.js renders for it;
\* pdf.numPages of a loaded document is at least 1.
\* ---------------------------------------------------------------------------

MaxPages == 3           \* the pages of the longest document

\* The pages at hand: a blank one, one whose raster carries the watermark of
\* payload-A, and a small textured one
PdfPages ==
    { [width |-> 16, height |-> 16, style |-> "gray", marked |-> ""],
      [width |-> 48, height |-> 48, style |-> "gray", marked |-> "payload-A"],
      [width |-> 16, height |-> 16, style |-> "texture", marked |-> ""] }

PdfDocuments == UNION {[1..n -> PdfPages] : n \in 1..MaxPages}

PdfPayloads == {"payload-A", "payload-Z"}

\* options.pdf.pageSelection: not given, or one of the tagged variants
PdfSelections ==
    { [kind |-> "undefined"], [kind |-> "all"], [kind |-> "first"],
      [kind |-> "array", items |-> <<>>],
      [kind |-> "array", items |-> <<1>>],
      [kind |-> "array", items |-> <<2, 0>>],
      [kind |-> "array", items |-> <<MaxPages, 0 - 1>>],
      [kind |-> "range", from |-> MaxPages + 1, to |-> 1] }

\* pdfOptions?.pageSelection ?? 'all'
pageSelectionOf(selection) ==
    IF selection.kind = "undefined" THEN [kind |-> "all"] ELSE selection

\* the raster of every page at hand
PageRaster == [page \in PdfPages |-> InputImage(page)]

\* extractWatermark(imageData, expectedBits) on the raster of every page at
\* hand, for every payload
PageExtract ==
    [page \in PdfPages |->
        [payload \in PdfPayloads |->
            extractWatermark(PageRaster[page],
                digestToBits(derivePayloadDigest(payload), PAYLOAD_BITS))]]

\* whether embedWatermark(imageData, payloadBits) throws on the raster of a
\* page: the test of its line 104 on the samples of the page's blocks
PageEmbedThrows ==
    [page \in PdfPages |->
        [payload \in PdfPayloads |->
            LET totalBlocks == (page.width \div BLOCK_SIZE) * (page.height \div BLOCK_SIZE)
            IN EmbedThrows(Schedule(digestToBits(derivePayloadDigest(payload), PAYLOAD_BITS),
                                    totalBlocks, PAYLOAD_BITS * REPETITION_FACTOR),
                           totalBlocks)]]

\* renderPdfPages(pdfBytes, pageIndices, ...): the pages of the indices that
\* are pages of the document, in the order of the indices
renderPdfPages(doc, pageIndices) ==
    LET valid == SelectSeq(pageIndices, LAMBDA pageIndex :
                    ~(pageIndex < 0 \/ pageIndex >= Len(doc)))
    IN [k \in 1..Len(valid) |-> [page |-> doc[valid[k] + 1], index |-> valid[k]]] \o <<>>

\* a check of the selection that never finds it empty
NoPagesSelected_Never(pageIndices) == FALSE

\* pageIndices.length === 0
NoPagesSelected(pageIndices) == Len(pageIndices) = 0

\* the value of Math.max() of no argument
NegInfinity == [num |-> 0 - 1, den |-> 0]

\* Math.max(...pageMatches.map((p) => p.confidence)), confidence = num / den
maxConfidence(pageMatches) ==
    IF Len(pageMatches) = 0 THEN NegInfinity
    ELSE LET top == CHOOSE k \in 1..Len(pageMatches) :
                        \A j \in 1..Len(pageMatches) :
                            pageMatches[k].confNum * pageMatches[j].confDen
                                >= pageMatches[j].confNum * pageMatches[k].confDen
         IN [num |-> pageMatches[top].confNum, den |-> pageMatches[top].confDen]

\* an aggregate that asks every page to match
anyMatch_Every(pageMatches) == \A k \in 1..Len(pageMatches) : pageMatches[k].isMatch

\* pageMatches.some((p) => p.isMatch)
anyMatch(pageMatches) == \E k \in 1..Len(pageMatches) : pageMatches[k].isMatch

\* the promise of a PDF call that rejected with message error after rendering
\* rendered pages and handing done of them to the core
PdfRejected(error, totalPages, rendered, done) ==
    [threw |-> TRUE, error |-> error, totalPages |-> totalPages,
     rendered |-> rendered, done |-> done,
     isMatch |-> FALSE, confNum |-> 0, confDen |-> 1, pageMatches |-> <<>>]

\* the number of elements of a sequence of booleans before its first TRUE
Before(throws) ==
    IF \E k \in 1..Len(throws) : throws[k]
    THEN (CHOOSE k \in 1..Len(throws) :
            throws[k] /\ \A j \in 1..(k - 1) : ~throws[j]) - 1
    ELSE Len(throws)

\* verifyPdf(image, payload, options) of the rendering variant
verifyPdfPages(doc, payload, selection, options) ==
    LET totalPages == Len(doc)
        pageIndices == resolvePageSelection(pageSelectionOf(selection), totalPages)
        renderedPages == renderPdfPages(doc, pageIndices)
        expectedDigest == derivePayloadDigest(payload)
        ex(k) == PageExtract[renderedPages[k].page][payload]
        throws == [k \in 1..Len(renderedPages) |-> ex(k).threw]
        pageMatches ==
            [k \in 1..Len(renderedPages) |->
                [index |-> renderedPages[k].index,
                 confNum |-> ex(k).confNum, confDen |-> ex(k).confDen,
                 isMatch |-> isMatch(ex(k).confNum, ex(k).confDen, thresholdOf(options),
                                     arrayBufferToHex(expectedDigest),
                                     arrayBufferToHex(packBits(ex(k).recoveredBits)))]] \o <<>>
    IN IF NoPagesSelected(pageIndices)
       THEN PdfRejected("No valid pages selected for verification", totalPages, 0, 0)
       ELSE IF Before(throws) < Len(throws)
       THEN PdfRejected("TypeError", totalPages, Len(renderedPages), Before(throws) + 1)
       ELSE [threw |-> FALSE, error |-> "", totalPages |-> totalPages,
             rendered |-> Len(renderedPages), done |-> Len(renderedPages),
             isMatch |-> anyMatch(pageMatches),
             confNum |-> maxConfidence(pageMatches).num,
             confDen |-> maxConfidence(pageMatches).den,
             pageMatches |-> pageMatches]

\* watermarkPdf(image, payload, options) of the rendering variant, without a
\* visible overlay: the promise and the pages of the blob returned
watermarkPdfPages(doc, payload, selection, output) ==
    LET totalPages == Len(doc)
        pageIndices == resolvePageSelection(pageSelectionOf(selection), totalPages)
        renderedPages == renderPdfPages(doc, pageIndices)
        throws == [k \in 1..Len(renderedPages) |->
                     PageEmbedThrows[renderedPages[k].page][payload]]
        watermarkedPages ==
            [k \in 1..Len(renderedPages) |->
                [index |-> renderedPages[k].index, page |-> renderedPages[k].page,
                 payload |-> payload]] \o <<>>
    IN IF NoPagesSelected(pageIndices)
       THEN [promise |-> PdfRejected("No valid pages selected for watermarking",
                                     totalPages, 0, 0),
             blob |-> <<>>]
       ELSE IF Before(throws) < Len(throws)
       THEN [promise |-> PdfRejected("TypeError", totalPages, Len(renderedPages),
                                     Before(throws) + 1),
             blob |-> <<>>]
       ELSE IF Len(watermarkedPages) = 0
       THEN [promise |-> PdfRejected("TypeError: firstPage is undefined", totalPages, 0, 0),
             blob |-> <<>>]
       ELSE [promise |->
                [threw |-> FALSE, error |-> "", totalPages |-> totalPages,
                 rendered |-> Len(renderedPages), done |-> Len(renderedPages),
                 isMatch |-> FALSE, confNum |-> 0, confDen |-> 1, pageMatches |-> <<>>],
             blob |-> IF output = "images" THEN <<watermarkedPages[1]>>
                      ELSE watermarkedPages]

\* the caller opens a PDF document
OpenPdf(doc) ==
    /\ file.kind = "none"
    /\ file' = [kind |-> "pdf", pages |-> doc]
    /\ UNCHANGED <<marks, res, twin, calls, prngVars, sched>>

\* verify(pdf, payload, { threshold, pdf: { pageSelection } })
VerifyPdf(payload, selection, options) ==
    /\ file.kind = "pdf"
    /\ res.op = "none"
    /\ \E out \in {verifyPdfPages(file.pages, payload, selection, options)} :
         res' = [op |-> "verifyPdf", payload |-> payload, selection |-> selection,
                 options |-> options, output |-> "",
                 threw |-> out.threw, error |-> out.error,
                 totalPages |-> out.totalPages,
                 rendered |-> out.rendered, done |-> out.done,
                 isMatch |-> out.isMatch, confNum |-> out.confNum,
                 confDen |-> out.confDen, pageMatches |-> out.pageMatches]
    /\ UNCHANGED <<file, marks, twin, calls, prngVars, sched>>

\* watermark(pdf, payload, { pdf: { pageSelection, output } }); the caller
\* keeps the blob in place of the document
WatermarkPdf(payload, selection, output) ==
    /\ file.kind = "pdf"
    /\ res.op = "none"
    /\ \E out \in {watermarkPdfPages(file.pages, payload, selection, output)} :
         /\ res' = [op |-> "watermarkPdf", payload |-> payload, selection |-> selection,
                    options |-> NoOptions, output |-> output,
                    threw |-> out.promise.threw, error |-> out.promise.error,
                    totalPages |-> out.promise.totalPages,
                    rendered |-> out.promise.rendered, done |-> out.promise.done,
                    isMatch |-> FALSE, confNum |-> 0, confDen |-> 1,
                    pageMatches |-> <<>>]
         /\ file' = IF out.promise.threw THEN file
                    ELSE [kind |-> IF output = "images" THEN "png" ELSE "pdf-of-images",
                          pages |-> out.blob]
    /\ UNCHANGED <<marks, twin, calls, prngVars, sched>>

\* the caller drops the document and the answer
ClosePdf ==
    /\ file.kind # "none"
    /\ file' = NoFile
    /\ res' = NoRes
    /\ UNCHANGED <<marks, twin, calls, prngVars, sched>>

NextPdf ==
    \/ \E doc \in PdfDocuments : OpenPdf(doc)
    \/ \E payload \in PdfPayloads, selection \in PdfSelections, options \in Options :
            VerifyPdf(payload, selection, options)
    \/ \E payload \in PdfPayloads, selection \in PdfSelections,
          output \in {"pdf", "images"} :
            WatermarkPdf(payload, selection, output)
    \/ ClosePdf

SpecPdf == Init /\ [][NextPdf]_vars

\* The pages of the open document that a selection names
SelectedPages ==
    LET picked == resolvePageSelection(pageSelectionOf(res.selection), res.totalPages)
    IN {file.pages[picked[k] + 1] : k \in 1..Len(picked)}

\* confidence >= threshold and the recovered digest is the expected one, on
\* the raster of one page
PageMatches(page, payload, options) ==
    LET ex == PageExtract[page][payload]
        t == thresholdOf(options)
    IN /\ ex.confNum * t.den >= t.num * ex.confDen
       /\ packBits(ex.recoveredBits) = derivePayloadDigest(payload)

\* C16: when verify() of the rendering PDF path answers, isMatch is true
\* exactly when at least one selected page satisfies the per-page match
\* predicate, and confidence is the largest of the selected pages'
\* confidences, a value in [0, 1]
C16_AnyMatchMaxConfidence ==
    (res.op = "verifyPdf" /\ ~res.threw) =>
        /\ res.isMatch <=>
              \E page \in SelectedPages : PageMatches(page, res.payload, res.options)
        /\ \A page \in SelectedPages :
              PageExtract[page][res.payload].confNum * res.confDen
                  <= res.confNum * PageExtract[page][res.payload].confDen
        /\ \E page \in SelectedPages :
              PageExtract[page][res.payload].confNum * res.confDen
                  = res.confNum * PageExtract[page][res.payload].confDen
        /\ res.confDen > 0
        /\ 0 <= res.confNum
        /\ res.confNum <= res.confDen

\* verify() has answered a match for a document of which one selected page
\* matches and another does not, with a confidence above the matching page's
C16_OnePageOfTwoMatches ==
    /\ res.op = "verifyPdf"
    /\ ~res.threw
    /\ res.isMatch
    /\ \E j, k \in 1..Len(res.pageMatches) :
          /\ res.pageMatches[j].isMatch
          /\ ~res.pageMatches[k].isMatch
          /\ res.pageMatches[j].confNum * res.confDen
                < res.confNum * res.pageMatches[j].confDen

CARRIER_SIZE == 512

\* The pages a loaded document may have: a US-Letter page and a small one,
\* nothing drawn on them yet
BlankPages ==
    { [width |-> 612, height |-> 792, texts |-> <<>>],
      [width |-> 200, height |-> 100, texts |-> <<>>] }

CarrierDocuments == UNION {[1..n -> BlankPages] : n \in 1..MaxPages}

CarrierPayloads == {"payload-A", "payload-Z"}

\* options.visible: not given, { enabled: false } or { enabled: true }
VisibleOptions == {"undefined", "disabled", "enabled"}

\* whether embedWatermark(createCarrierImage(), payloadBits) throws: the test
\* of its line 104 on the samples of the carrier's blocks
CarrierEmbedThrows ==
    [payload \in CarrierPayloads |->
        LET totalBlocks == (CARRIER_SIZE \div BLOCK_SIZE) * (CARRIER_SIZE \div BLOCK_SIZE)
        IN EmbedThrows(Schedule(digestToBits(derivePayloadDigest(payload), PAYLOAD_BITS),
                                totalBlocks, PAYLOAD_BITS * REPETITION_FACTOR),
                       totalBlocks)]

\* a drawing loop that skips the pages the selection does not name
applyVisibleWatermarkToPdf_Selected(pages, payload, selection) ==
    LET picked == resolvePageSelection(pageSelectionOf(selection), Len(pages))
    IN [i \in 1..Len(pages) |->
          IF \E k \in 1..Len(picked) : picked[k] = i - 1
          THEN [pages[i] EXCEPT !.texts = Append(@, payload)]
          ELSE pages[i]] \o <<>>

\* applyVisibleWatermarkToPdf(pdfDoc, payload, options.visible):
\* page.drawText(payload, ...) for every page of pdfDoc.getPages(); selection
\* is options.pdf.pageSelection of the caller, which the function is not given
applyVisibleWatermarkToPdf(pages, payload, selection) ==
    [i \in 1..Len(pages) |-> [pages[i] EXCEPT !.texts = Append(@, payload)]] \o <<>>

\* watermarkPdf(image, payload, options) of src/index.ts: the promise and the
\* pages of the blob returned
watermarkPdf(pages, payload, selection, visible) ==
    IF CarrierEmbedThrows[payload]
    THEN [threw |-> TRUE, pageCount |-> 0, pages |-> pages]
    ELSE [threw |-> FALSE, pageCount |-> Len(pages),
          pages |-> IF visible = "enabled"
                    THEN applyVisibleWatermarkToPdf(pages, payload, selection)
                    ELSE pages]

\* the caller opens a PDF document
OpenCarrierPdf(doc) ==
    /\ file.kind = "none"
    /\ file' = [kind |-> "pdf", hasCarrier |-> FALSE, pages |-> doc]
    /\ UNCHANGED <<marks, res, twin, calls, prngVars, sched>>

\* watermark(pdf, payload, { visible, pdf: { pageSelection } }); the caller
\* keeps the blob in place of the document
WatermarkCarrierPdf(payload, selection, visible) ==
    /\ file.kind = "pdf"
    /\ res.op = "none"
    /\ \E out \in {watermarkPdf(file.pages, payload, selection, visible)} :
         /\ res' = [op |-> "watermarkPdf", payload |-> payload,
                    selection |-> selection, visible |-> visible,
                    threw |-> out.threw, pageCount |-> out.pageCount]
         /\ file' = IF out.threw THEN file
                    ELSE [kind |-> "pdf", hasCarrier |-> TRUE, pages |-> out.pages]
    /\ UNCHANGED <<marks, twin, calls, prngVars, sched>>

NextCarrierPdf ==
    \/ \E doc \in CarrierDocuments : OpenCarrierPdf(doc)
    \/ \E payload \in CarrierPayloads, selection \in PdfSelections,
          visible \in VisibleOptions :
            WatermarkCarrierPdf(payload, selection, visible)
    \/ ClosePdf

SpecCarrierPdf == Init /\ [][NextCarrierPdf]_vars

\* C19: after watermark() on a PDF with the visible watermark enabled, the
\* pages that carry the visible text are exactly the pages that
\* options.pdf.pageSelection names: page 0 for 'first', the listed pages for
\* an index array, the pages from..to for a range, every page for 'all' and
\* for no selection
C19_VisibleTextOnSelectedPages ==
    (res.op = "watermarkPdf" /\ ~res.threw /\ res.visible = "enabled") =>
        \A i \in 1..Len(file.pages) :
            (file.pages[i].texts # <<>>) <=>
                \E k \in 1..Len(resolvePageSelection(pageSelectionOf(res.selection),
                                                     Len(file.pages))) :
                    resolvePageSelection(pageSelectionOf(res.selection),
                                         Len(file.pages))[k] = i - 1

\* ---------------------------------------------------------------------------
\* The head of embedWatermark (part_006, lines 54-60) and of extractWatermark
\* (extract.ts, lines 34-41): new SeededPRNG(payloadBits) and
\* createBlockAssignments(prng, totalBlocks, encodedLength)
\* ---------------------------------------------------------------------------

\* Digests of eight bytes: those of the payloads, two more with the XOR fold
\* of payload-B's, one of zero bytes and one of 0xff bytes
AssignDigests ==
    {derivePayloadDigest(p) : p \in Payloads}
        \cup { <<136, 136, 136, 136, 0, 0, 0, 0>>, <<0, 0, 0, 0, 136, 136, 136, 136>>,
               <<0, 0, 0, 0, 0, 0, 0, 0>>, <<255, 255, 255, 255, 255, 255, 255, 0>> }

\* The block counts of images around one and two blocks per coded bit
AssignBlockCounts == {0, 1, 100, 191, 192, 193, 383, 384, 400}

\* One-byte digests (24 coded bits) on few blocks
ShortDigests == { <<165>>, <<0>>, <<90>> }
MaxShortBlocks == 50

AssignInputs ==
    {[digest |-> d, totalBlocks |-> t] : d \in AssignDigests, t \in AssignBlockCounts}
        \cup {[digest |-> d, totalBlocks |-> t] : d \in ShortDigests, t \in 0..MaxShortBlocks}

\* swapIndex of every iteration i = totalBlocks - 1, ..., 1 of the shuffle
\* loop, in loop order, as [i, swapIndex]
SwapIndices(st, totalBlocks) ==
    Only({[k \in 1..(totalBlocks - 1) |->
              [i |-> totalBlocks - k,
               swapIndex |-> NextIntOf(words[k], totalBlocks - k + 1)]] \o <<>> :
            words \in {Stream(st, totalBlocks - 1).outs}})

\* what the head of the function leaves: the seed, the state of the new
\* generator, the result of createBlockAssignments and the swap indices drawn
SetupOf(op, digest, totalBlocks) ==
    Only({ Only({ Only({
        [op |-> op, digest |-> digest, payloadBits |-> bits,
         encodedLength |-> Len(bits) * REPETITION_FACTOR, totalBlocks |-> totalBlocks,
         seed |-> bits, state |-> st,
         blocksPerBit |-> ba.blocksPerBit, shuffled |-> ba.shuffled,
         assignments |-> ba.assignments,
         swaps |-> IF ba.shuffled THEN SwapIndices(st, totalBlocks) ELSE <<>>] :
            ba \in {createBlockAssignments(st, totalBlocks, Len(bits) * REPETITION_FACTOR)} }) :
            st \in {SeededPRNG(bits)} }) :
            bits \in {digestToBits(digest, 8 * Len(digest))} })

\* embedWatermark(imageData, digestToBits(digest, PAYLOAD_BITS)) up to line 60
EmbedSetup(in) ==
    /\ res.op = "none"
    /\ res' = SetupOf("embedWatermark", in.digest, in.totalBlocks)
    /\ UNCHANGED <<file, marks, twin, calls, prngVars, sched>>

\* extractWatermark(imageData, digestToBits(digest, PAYLOAD_BITS)) up to line 41
ExtractSetup(in) ==
    /\ res.op = "none"
    /\ res' = SetupOf("extractWatermark", in.digest, in.totalBlocks)
    /\ UNCHANGED <<file, marks, twin, calls, prngVars, sched>>

\* the caller drops what the call left
DropSetup ==
    /\ res.op # "none"
    /\ res' = NoRes
    /\ UNCHANGED <<file, marks, twin, calls, prngVars, sched>>

NextAssign ==
    \/ \E in \in AssignInputs : EmbedSetup(in)
    \/ \E in \in AssignInputs : ExtractSetup(in)
    \/ DropSetup

SpecAssign == Init /\ [][NextAssign]_vars

IsSetup == res.op \in {"embedWatermark", "extractWatermark"}

\* C21: embedWatermark and extractWatermark seed the generator from the bytes
\* of the payload digest: the seed has one element per digest byte, the byte
\* itself, and the generator starts in the state that seed gives
C21_SeededFromDigestBytes ==
    IsSetup =>
        /\ res.seed = res.digest
        /\ res.state = SeededPRNG(res.digest)

\* C25: createBlockAssignments returns blocksPerBit = max(1, floor(totalBlocks
\* / encodedLength)); assignments is null exactly when blocksPerBit *
\* encodedLength > totalBlocks, which is exactly when totalBlocks <
\* encodedLength, and otherwise a list of blocksPerBit * encodedLength entries
C25_BlocksPerBitAndMode ==
    IsSetup =>
        /\ res.blocksPerBit = Max(1, res.totalBlocks \div res.encodedLength)
        /\ ~res.shuffled <=> res.blocksPerBit * res.encodedLength > res.totalBlocks
        /\ ~res.shuffled <=> res.totalBlocks < res.encodedLength
        /\ res.shuffled => Len(res.assignments) = res.blocksPerBit * res.encodedLength

\* An image of 400 blocks has been given two blocks per coded bit and a list
\* of 384 assignments
C25_TwoBlocksPerBit ==
    /\ IsSetup
    /\ res.totalBlocks = 400
    /\ res.encodedLength = 192
    /\ res.blocksPerBit = 2
    /\ res.shuffled
    /\ Len(res.assignments) = 384

\* C26: in shuffle mode the assignment list is a prefix of a permutation of
\* 0..totalBlocks-1: its entries are pairwise distinct integers in
\* [0, totalBlocks), and every swap index of the shuffle lies in [0, i]
C26_PermutationPrefix ==
    (IsSetup /\ res.shuffled) =>
        /\ \A k \in 1..Len(res.assignments) :
              res.assignments[k] >= 0 /\ res.assignments[k] < res.totalBlocks
        /\ \A j, k \in 1..Len(res.assignments) :
              j # k => res.assignments[j] # res.assignments[k]
        /\ \A k \in 1..Len(res.swaps) :
              res.swaps[k].swapIndex >= 0 /\ res.swaps[k].swapIndex <= res.swaps[k].i

\* The XOR of digest bits 0..31 with digest bits 32..63, as the set of the
\* positions b where bit b and bit b + 32 differ
FoldOf(bits) == {b \in 0..31 : bits[b + 1] # bits[b + 33]}

\* The generator state a fold gives: bit b of the fold in word b mod 4 at
\* position b, and the fallback state for the empty fold
StateOfFold(fold) ==
    IF fold = {}
    THEN [s0 |-> WordOf(4660, 22136), s1 |-> WordOf(39612, 57072),
          s2 |-> WordOf(65244, 47768), s3 |-> WordOf(30292, 12816)]
    ELSE [s0 |-> {b \in fold : b % 4 = 0}, s1 |-> {b \in fold : b % 4 = 1},
          s2 |-> {b \in fold : b % 4 = 2}, s3 |-> {b \in fold : b % 4 = 3}]

\* The other digests at hand with the XOR fold of the digest of the last call
SameFoldDigests ==
    {d \in AssignDigests \ {res.digest} :
        FoldOf(digestToBits(d, 64)) = FoldOf(res.payloadBits)}

\* C28: seeded with the 64 digest bits, the generator's initial state is a
\* function of the XOR of bits 0..31 with bits 32..63 alone: digests with the
\* same fold get the same state, block assignments and swap draws, and a
\* digest whose halves are equal gets the fallback state
C28_StateIsXorFold ==
    (IsSetup /\ Len(res.digest) = 8) =>
        /\ res.state = StateOfFold(FoldOf(res.payloadBits))
        /\ \A d \in SameFoldDigests :
              /\ SetupOf(res.op, d, res.totalBlocks).state = res.state
              /\ SetupOf(res.op, d, res.totalBlocks).assignments = res.assignments
              /\ SetupOf(res.op, d, res.totalBlocks).swaps = res.swaps
        /\ SubSeq(res.digest, 1, 4) = SubSeq(res.digest, 5, 8) =>
              res.state = FallbackState

\* Two different digests with the fold 0x88888888 are at hand, one of them
\* set up on 192 blocks
C28_SameFoldPair ==
    /\ IsSetup
    /\ res.digest = <<136, 136, 136, 136, 0, 0, 0, 0>>
    /\ res.totalBlocks = 192
    /\ res.shuffled
    /\ derivePayloadDigest("payload-B") \in SameFoldDigests

\* ---------------------------------------------------------------------------
\* The votes of one block (part_006, lines 98-125): the samples that fall on
\* the block, each a coefficient index and a coded bit, grouped by coefficient
\* position and written into the block's DCT
\* ---------------------------------------------------------------------------

MaxSamples == 4         \* the samples that fall on one block

\* The coefficient indices the samples of the block draw from
VotedCoeffs == {0, 1, 14}

\* The samples of a block, in the order of the sampling loop
BlockSamples ==
    UNION {[1..n -> [coeffIdx : VotedCoeffs, bit : {0, 1}]] : n \in 0..MaxSamples}

\* dct2d of the first block of three pictures: flat, textured, and one of
\* strong contrast
TestDctBlocks ==
    {dct2d(BlockAt(Picture(8, 8, style), 0, 0)) : style \in {"gray", "texture", "alpha"}}

\* blockVotes.get(blockIdx) of a block on which these samples fell
VotesOf(samples) ==
    TallyRange(<<NoVotes>>,
               [blocksPerBit |-> 1, count |-> Len(samples),
                block |-> [k \in 1..Len(samples) |-> 0],
                coeff |-> [k \in 1..Len(samples) |-> samples[k].coeffIdx]],
               [k \in 1..Len(samples) |-> samples[k].bit],
               1, Len(samples))[1]

\* lines 98-123 on one block: dct2d of the block before and after its votes
EmbedVotes(dctBlock, samples) ==
    /\ res.op = "none"
    /\ res' = [op |-> "embedVotes", samples |-> samples, before |-> dctBlock,
               after |-> EmbedInBlock(dctBlock, VotesOf(samples))]
    /\ UNCHANGED <<file, marks, twin, calls, prngVars, sched>>

NextVotes ==
    \/ \E dctBlock \in TestDctBlocks, samples \in BlockSamples :
            EmbedVotes(dctBlock, samples)
    \/ DropSetup

SpecVotes == Init /\ [][NextVotes]_vars

\* The samples of the last call that hit coefficient position (u, v)
HitsOf(u, v) ==
    {k \in 1..Len(res.samples) : MID_FREQ_COEFFS[res.samples[k].coeffIdx + 1] = <<u, v>>}

\* The number of those samples whose bit is 1
OnesOf(u, v) == Cardinality({k \in HitsOf(u, v) : res.samples[k].bit = 1})

\* C22, as stated: the bit embedded at a coefficient position that several
\* samples hit is the majority of their bits, an exact tie giving 1
C22_MajorityTieToOne ==
    res.op = "embedVotes" =>
        \A u, v \in 0..7 :
            HitsOf(u, v) # {} =>
                (res.after[u + 1][v + 1] > 0
                    <=> 2 * OnesOf(u, v) >= Cardinality(HitsOf(u, v)))

\* C22, amended: the bit embedded at a coefficient position that several
\* samples hit is the majority of their bits, an exact tie giving 0
C22_MajorityTieToZero ==
    res.op = "embedVotes" =>
        \A u, v \in 0..7 :
            HitsOf(u, v) # {} =>
                (res.after[u + 1][v + 1] > 0
                    <=> 2 * OnesOf(u, v) > Cardinality(HitsOf(u, v)))

\* Four samples have hit position (1, 2), two of them with the bit 1, and the
\* coefficient has been made negative
C22_TieEmbedded ==
    /\ res.op = "embedVotes"
    /\ Cardinality(HitsOf(1, 2)) = 4
    /\ OnesOf(1, 2) = 2
    /\ res.after[2][3] < 0

\* C23: every coefficient that carries a sample is +(|c| + S) after embedding
\* when its majority bit is 1 and -(|c| + S) when it is 0, c the coefficient
\* before and S = EMBEDDING_STRENGTH > 0, so its magnitude is at least S; a
\* coefficient that carries no sample is unchanged
C23_SignForcing ==
    res.op = "embedVotes" =>
        /\ EMBEDDING_STRENGTH > 0
        /\ \A u, v \in 0..7 :
              IF HitsOf(u, v) = {}
              THEN res.after[u + 1][v + 1] = res.before[u + 1][v + 1]
              ELSE /\ Abs(res.after[u + 1][v + 1])
                        = Abs(res.before[u + 1][v + 1]) + EMBEDDING_STRENGTH * YSCALE
                   /\ Abs(res.after[u + 1][v + 1]) >= EMBEDDING_STRENGTH * YSCALE
                   /\ res.after[u + 1][v + 1] > 0
                        <=> 2 * OnesOf(u, v) > Cardinality(HitsOf(u, v))

\* A negative coefficient has been given the bit 1 and a positive one the
\* bit 0, next to a coefficient left alone
C23_SignsTurned ==
    /\ res.op = "embedVotes"
    /\ \E u, v \in 0..7 : res.before[u + 1][v + 1] < 0 /\ res.after[u + 1][v + 1] > 0
    /\ \E u, v \in 0..7 : res.before[u + 1][v + 1] > 0 /\ res.after[u + 1][v + 1] < 0
    /\ \E u, v \in 1..4 : HitsOf(u, v) = {} /\ res.before[u + 1][v + 1] # 0

\* ---------------------------------------------------------------------------
\* The voting loop of extractWatermark (extract.ts, lines 44-88), sample by
\* sample: the coefficient read, its vote, and the soft value of each coded bit
\* ---------------------------------------------------------------------------

\* The pictures extracted from: without a block, flat, textured, of strong
\* contrast, and with two and three blocks per coded bit of a one-byte payload
ExtractPictures ==
    { [width |-> 4, height |-> 4, style |-> "gray"],
      [width |-> 8, height |-> 8, style |-> "gray"],
      [width |-> 16, height |-> 16, style |-> "texture"],
      [width |-> 16, height |-> 16, style |-> "alpha"],
      [width |-> 24, height |-> 16, style |-> "texture"],
      [width |-> 32, height |-> 24, style |-> "alpha"],
      [width |-> 48, height |-> 48, style |-> "texture"],
      [width |-> 64, height |-> 48, style |-> "texture"],
      [width |-> 64, height |-> 48, style |-> "alpha"],
      [width |-> 72, height |-> 64, style |-> "alpha"] }

\* The expected payloads: the digests of the payloads and one-byte digests
ExtractDigests ==
    {derivePayloadDigest(p) : p \in Payloads}
        \cup {<<b>> : b \in {0, 1, 37, 64, 90, 128, 165, 200, 219, 254, 255}}

\* a vote that counts a zero coefficient as positive
VoteOf_ZeroIsPositive(coeffValue) == IF coeffValue >= 0 THEN 1 ELSE 0 - 1

\* coeffValue > 0 ? 1 : -1
VoteOf(coeffValue) == IF coeffValue > 0 THEN 1 ELSE 0 - 1

\* dctBlock[u * BLOCK_SIZE + v] of every sample, in loop order
CoeffValues(sch, dcts) ==
    [k \in 1..sch.count |->
        IF sch.block[k] = UNDEFINED THEN 0
        ELSE dcts[sch.block[k] + 1][MID_FREQ_COEFFS[sch.coeff[k] + 1][1] + 1]
                                   [MID_FREQ_COEFFS[sch.coeff[k] + 1][2] + 1]] \o <<>>

\* the sum of votes[lo..hi]
RECURSIVE VoteSum(_, _, _)
VoteSum(votes, lo, hi) == IF hi < lo THEN 0 ELSE votes[hi] + VoteSum(votes, lo, hi - 1)

\* normalized = (avgVote + 1) / 2 of every coded bit, as the numerator
\* sum of votes + blocksPerBit over the denominator 2 * blocksPerBit
Normalized(votes, blocksPerBit, encodedLength) ==
    [e \in 1..encodedLength |->
        VoteSum(votes, (e - 1) * blocksPerBit + 1, e * blocksPerBit) + blocksPerBit] \o <<>>

\* extractWatermark(imageData, expectedPayloadBits) with what its loop computed
ExtractTrace(imageData, expectedPayloadBits) ==
    Only({ Only({
        IF ExtractThrows(sch)
        THEN [op |-> "extractVotes", threw |-> TRUE, blocksPerBit |-> sch.blocksPerBit,
              coeffValues |-> <<>>, votes |-> <<>>, noisyBits |-> <<>>, modelBits |-> <<>>,
              confNum |-> 0, confDen |-> 1]
        ELSE Only({ Only({ Only({ Only({ Only({
                [op |-> "extractVotes", threw |-> FALSE, blocksPerBit |-> sch.blocksPerBit,
                 coeffValues |-> values, votes |-> votes, noisyBits |-> noisyBits,
                 modelBits |-> NoisyBits(sch, dcts, Len(bits) * 3),
                 confNum |-> dec.confNum, confDen |-> dec.confDen] :
                    dec \in {decodeWithMajorityVote(noisyBits, 2 * sch.blocksPerBit, Len(bits))} }) :
                    noisyBits \in {Normalized(votes, sch.blocksPerBit, Len(bits) * 3)} }) :
                    votes \in {[k \in 1..Len(values) |-> VoteOf(values[k])] \o <<>>} }) :
                    values \in {CoeffValues(sch, dcts)} }) :
                    dcts \in {[b \in 1..(blocksX * blocksY + 1) |->
                                 dct2d(ExtractBlock(img, b - 1, blocksX))] \o <<>>} }) :
            sch \in {Schedule(bits, blocksX * blocksY, Len(bits) * 3)} }) :
            img \in {imageData}, bits \in {expectedPayloadBits},
            blocksX \in {imageData.width \div BLOCK_SIZE},
            blocksY \in {imageData.height \div BLOCK_SIZE} })

\* extractWatermark(picture, digestToBits(digest, 8 * digest.length))
ExtractVotes(picture, digest) ==
    /\ res.op = "none"
    /\ res' = ExtractTrace(Picture(picture.width, picture.height, picture.style),
                           digestToBits(digest, 8 * Len(digest)))
    /\ UNCHANGED <<file, marks, twin, calls, prngVars, sched>>

NextExtract ==
    \/ \E picture \in ExtractPictures, digest \in ExtractDigests :
            ExtractVotes(picture, digest)
    \/ DropSetup

SpecExtract == Init /\ [][NextExtract]_vars

\* The samples of coded bit e (from 1) whose coefficient is strictly positive
PositiveSamples(e) ==
    {k \in ((e - 1) * res.blocksPerBit + 1)..(e * res.blocksPerBit) :
        res.coeffValues[k] > 0}

\* C24: each sample votes +1 iff its coefficient is strictly positive and -1
\* otherwise, a zero coefficient voting -1; the soft value of a coded bit,
\* (mean of its votes + 1) / 2, is the fraction of its samples with a positive
\* coefficient and lies in [0, 1]; the confidence returned lies in [0, 1]
C24_VotesAndSoftValues ==
    (res.op = "extractVotes" /\ ~res.threw) =>
        /\ \A k \in 1..Len(res.votes) :
              /\ res.votes[k] \in {1, 0 - 1}
              /\ res.votes[k] = 1 <=> res.coeffValues[k] > 0
              /\ res.coeffValues[k] = 0 => res.votes[k] = 0 - 1
        /\ \A e \in 1..Len(res.noisyBits) :
              /\ res.noisyBits[e] = 2 * Cardinality(PositiveSamples(e))
              /\ res.noisyBits[e] >= 0
              /\ res.noisyBits[e] <= 2 * res.blocksPerBit
              /\ res.modelBits[e] = Cardinality(PositiveSamples(e))
        /\ res.confDen > 0
        /\ res.confNum >= 0
        /\ res.confNum <= res.confDen

\* An extraction with three samples per coded bit has met positive, negative
\* and zero coefficients and a coded bit whose votes are split
C24_SplitVotes ==
    /\ res.op = "extractVotes"
    /\ ~res.threw
    /\ res.blocksPerBit = 3
    /\ \E k \in 1..Len(res.votes) : res.coeffValues[k] > 0
    /\ \E k \in 1..Len(res.votes) : res.coeffValues[k] < 0
    /\ \E e \in 1..Len(res.noisyBits) :
          res.noisyBits[e] > 0 /\ res.noisyBits[e] < 2 * res.blocksPerBit

\* ---------------------------------------------------------------------------
\* The binary search of calculateTextSizing (render.ts, lines 29-59), probe by
\* probe.  minFontSize and maxFontSize are the numbers the caller set, whole
\* or not: a font size is held in half pixels, so that 21 is 10.5px.  What
\* fits is the browser's: it is given as the set of the sizes that fit.
\* ---------------------------------------------------------------------------

MaxFontSize2 == 12      \* the largest font size, in half pixels

NoBest == 0 - 1         \* bestResult = null

\* The sizes that fit: all up to a limit (fitting is monotone), and two sets
\* with a size that fits above one that does not
FitSets ==
    {{s \in 0..MaxFontSize2 : s <= t} : t \in (0 - 1)..MaxFontSize2}
        \cup {{4, 8}, (0..MaxFontSize2) \ {6}}

\* The calls: minFontSize <= maxFontSize and what fits
Sizings ==
    {[minFontSize |-> lo, maxFontSize |-> hi, fit |-> f] :
        lo \in 0..MaxFontSize2, hi \in 0..MaxFontSize2, f \in FitSets}

\* lines 34-39: the call up to the loop
StartSizing(in) ==
    /\ res.op = "none"
    /\ in.minFontSize <= in.maxFontSize
    /\ res' = [op |-> "calculateTextSizing", pc |-> "loop",
               minFontSize |-> in.minFontSize, maxFontSize |-> in.maxFontSize,
               fit |-> in.fit, low |-> in.minFontSize, high |-> in.maxFontSize,
               bestResult |-> NoBest, probes |-> 0,
               out |-> [fontSize |-> NoBest, fits |-> FALSE]]
    /\ UNCHANGED <<file, marks, twin, calls, prngVars, sched>>

\* lines 41-51: one turn of the loop, mid = Math.floor((low + high) / 2)
Probe ==
    /\ res.op = "calculateTextSizing"
    /\ res.pc = "loop"
    /\ res.low <= res.high
    /\ LET mid == 2 * ((res.low + res.high) \div 4)
       IN res' = IF mid \in res.fit
                 THEN [res EXCEPT !.bestResult = mid, !.low = mid + 2,
                                  !.probes = @ + 1]
                 ELSE [res EXCEPT !.high = mid - 2, !.probes = @ + 1]
    /\ UNCHANGED <<file, marks, twin, calls, prngVars, sched>>

\* lines 53-58: the loop has ended; without a result, tryFontSize(minFontSize)
Return ==
    /\ res.op = "calculateTextSizing"
    /\ res.pc = "loop"
    /\ res.low > res.high
    /\ res' = [res EXCEPT !.pc = "done",
                          !.out = IF res.bestResult = NoBest
                                  THEN [fontSize |-> res.minFontSize,
                                        fits |-> res.minFontSize \in res.fit]
                                  ELSE [fontSize |-> res.bestResult, fits |-> TRUE]]
    /\ UNCHANGED <<file, marks, twin, calls, prngVars, sched>>

NextSizing ==
    \/ \E in \in Sizings : StartSizing(in)
    \/ Probe
    \/ Return
    \/ DropSetup

SpecSizing == Init /\ [][NextSizing]_vars

\* The whole sizes (in half pixels) from minFontSize to maxFontSize that fit
FittingSizes ==
    {s \in res.fit : s % 2 = 0 /\ s >= res.minFontSize /\ s <= res.maxFontSize}

\* A size that fits lets every smaller size fit
MonotoneFit == \A a, b \in 0..MaxFontSize2 : (a <= b /\ b \in res.fit) => a \in res.fit

\* C27: the binary search of calculateTextSizing ends, each probe narrowing
\* [low, high], and for minFontSize <= maxFontSize it returns a font size
\* within [minFontSize, maxFontSize]: when a whole size of that range fits
\* and fitting is monotone in the size, fits = true with the largest size that
\* fits; when no size fits, the result for minFontSize with fits = false
C27_BinarySearch ==
    res.op = "calculateTextSizing" =>
        /\ res.probes <= (res.maxFontSize - res.minFontSize) + 1
        /\ res.pc = "loop" =>
              (res.low > res.high
                 \/ (res.high - res.low) + res.probes <= res.maxFontSize - res.minFontSize)
        /\ res.pc = "done" =>
              /\ res.out.fontSize >= res.minFontSize
              /\ res.out.fontSize <= res.maxFontSize
              /\ (MonotoneFit /\ FittingSizes # {}) =>
                    /\ res.out.fits
                    /\ res.out.fontSize \in FittingSizes
                    /\ \A s \in FittingSizes : s <= res.out.fontSize
              /\ (FittingSizes = {} /\ res.minFontSize \notin res.fit) =>
                    /\ ~res.out.fits
                    /\ res.out.fontSize = res.minFontSize

=============================================================================
